---- MODULE Spec2Model ----
(***************************************************************************)
(* Clustering core of Semantic-Document-Clustering: the K-Means and DBSCAN *)
(* engines, the silhouette scorer, the algorithm selector and the label    *)
(* de-duplication of the clustering API route, together with the K-Means   *)
(* and DBSCAN engines of utils/clustering-algorithms.ts.                   *)
(*                                                                         *)
(* Numbers.  The code computes in IEEE doubles.  The model computes the    *)
(* same expressions exactly: a number is a rational [n, d] in lowest terms *)
(* (d > 0), and Number.POSITIVE_INFINITY is [n |-> 1, d |-> 0].  Document  *)
(* vectors are drawn from a catalogue of integer vectors whose Euclidean   *)
(* norms are integers, so every cosine similarity between two documents is *)
(* a rational.  A centroid is kept as the component-wise sum of its points *)
(* and their count (the mean is sum/cnt); comparisons of cosines against   *)
(* centroids are decided exactly by comparing squares.                     *)
(*                                                                         *)
(* Indices are 0-based as in the source; a JS array is a TLA+ sequence, so *)
(* arr[x] of the source is arr[x + 1] here.  A JS object keyed by cluster  *)
(* id is a function from the set of ids; ids are enumerated in ascending   *)
(* order, as JS enumerates integer keys.                                   *)
(***************************************************************************)
EXTENDS Integers, Sequences, FiniteSets, TLC

VARIABLES
    pc,             \* position of the call under way
    impl,           \* which implementation is called
    vectors,        \* the input vectors, a sequence (index idx is vectors[idx + 1])
    \* K-Means locals
    k, maxIterations, centroids, used, seedI, clusters,
    bestClusters, bestSilhouette, iterations, converged, kmeansResult,
    kArg,           \* the k the call was given, before the clamp
    history,        \* per iteration run: the assignment, and whether the update moved a centroid
    draws,          \* the values Math.random() returned to the call, kept when two calls are compared
    firstRun,       \* two calls on one input: whether compared, and what the first returned
    \* DBSCAN locals
    eps, minPts, visited, noise, dbClusters, clusterIdx, i, neighbors, j,
    dbscanResult,
    \* runOptimalClustering / findOptimalParameters
    documentCount, selected,
    \* POST: label de-duplication
    clusterSummaries, labelCounts, updatedSummaries, cursor,
    \* vectorizers: generateSemanticEmbeddings / createSemanticVectors
    documents, embeddings, vector, vectorIndex, loopPos,
    \* generateClusterLabel
    combinedText, topTerms, allTerms, categoryScores, categoryPos, clusterLabel,
    \* the two per-point silhouette formulas on one pair (a, b)
    formulas,
    \* retryWithBackoff: parameters, locals, invocations of fn and waits
    retry,
    \* per index, how many times DBSCAN has called getNeighbors on it
    neighborhoodCalls

kmVars == <<k, maxIterations, centroids, used, seedI, clusters,
            bestClusters, bestSilhouette, iterations, converged, kmeansResult,
            history, kArg, draws>>
dbVars == <<eps, minPts, visited, noise, dbClusters, clusterIdx, i, neighbors, j,
            dbscanResult>>
selVars == <<documentCount, selected>>
lblVars == <<clusterSummaries, labelCounts, updatedSummaries, cursor>>
embVars == <<documents, embeddings, vector, vectorIndex, loopPos>>
genVars == <<combinedText, topTerms, allTerms, categoryScores, categoryPos, clusterLabel>>
runVars == <<firstRun>>
auxVars == <<formulas, retry, neighborhoodCalls>>
vars == <<pc, impl, vectors, kmVars, dbVars, selVars, lblVars, embVars, genVars, runVars,
          auxVars>>

----------------------------------------------------------------------------
(* Bounds of the model.                                                    *)

MaxVectorsKM == 3
MaxK == 3
MaxIter == 2
MaxVectorsDB == 4
MaxMinPts == 3
MaxVectorsSel == 4
MaxDocuments == 200
MaxClusters == 4
RandSteps == 4

----------------------------------------------------------------------------
(* Exact arithmetic.                                                       *)

Abs(x) == IF x < 0 THEN -x ELSE x

RECURSIVE Gcd(_, _)
Gcd(a, b) == IF b = 0 THEN a ELSE Gcd(b, a % b)

\* the rational n/d in lowest terms, d # 0
Rat(n, d) ==
    LET g == Gcd(Abs(n), Abs(d))
        s == IF d < 0 THEN -1 ELSE 1
    IN  [n |-> s * (n \div g), d |-> s * (d \div g)]

Inf == [n |-> 1, d |-> 0]
RZero == [n |-> 0, d |-> 1]
ROne == [n |-> 1, d |-> 1]
RInt(x) == [n |-> x, d |-> 1]

IsInf(x) == x.d = 0
RAdd(x, y) == Rat(x.n * y.d + y.n * x.d, x.d * y.d)
RSub(x, y) == Rat(x.n * y.d - y.n * x.d, x.d * y.d)
RMul(x, y) == Rat(x.n * y.n, x.d * y.d)
\* x / y for finite x: a positive number over 0 is Infinity, x over Infinity is 0
RDiv(x, y) ==
    IF IsInf(y) THEN RZero
    ELSE IF y.n = 0 THEN Inf
    ELSE Rat(x.n * y.d, x.d * y.n)
RLess(x, y) == x.n * y.d < y.n * x.d
RLeq(x, y) == ~RLess(y, x)
RMin(x, y) == IF RLess(y, x) THEN y ELSE x

\* Math.floor of a non-negative rational
RFloor(x) == x.n \div x.d

\* p/q < r/s for naturals p, r and positive q, s, without forming the products
RECURSIVE FracLess(_, _, _, _)
FracLess(p, q, r, s) ==
    LET ip == p \div q
        ir == r \div s
        fp == p % q
        fr == r % s
    IN  IF ip # ir THEN ip < ir
        ELSE IF fr = 0 THEN FALSE
        ELSE IF fp = 0 THEN TRUE
        ELSE FracLess(s, fr, q, fp)

\* Math.sqrt of a perfect square: the least r with r * r >= x, from r upward
RECURSIVE SqrtFrom(_, _)
SqrtFrom(x, r) == IF r * r >= x THEN r ELSE SqrtFrom(x, r + 1)

ISqrt(x) == SqrtFrom(x, 0)

----------------------------------------------------------------------------
(* Vectors and the cosine metric.                                          *)

\* The vectors a document can have.  All norms are integers (0, 1, 5).
Catalogue == { <<0, 0>>, <<1, 0>>, <<4, 3>>, <<3, 4>> }

RECURSIVE DotUpTo(_, _, _)
DotUpTo(a, b, m) == IF m = 0 THEN 0 ELSE DotUpTo(a, b, m - 1) + a[m] * b[m]

MinLen(a, b) == IF Len(a) < Len(b) THEN Len(a) ELSE Len(b)
Dot(a, b) == DotUpTo(a, b, MinLen(a, b))
NormSq(a, b) == DotUpTo(a, a, MinLen(a, b))

\* cosineSimilarity of two vectors whose norms are integers
cosineSimilarity(a, b) ==
    LET normA == ISqrt(NormSq(a, b))
        normB == ISqrt(NormSq(b, a))
    IN  IF normA = 0 \/ normB = 0 THEN RZero
        ELSE Rat(Dot(a, b), normA * normB)

cosineSimilarityDistance(a, b) == RSub(ROne, cosineSimilarity(a, b))

N == Len(vectors)
Indices == 0 .. (N - 1)
Vec(idx) == vectors[idx + 1]
\* a distance that is not symmetric: finite only towards an earlier index
DistToEarlier(p, q) ==
    IF q > p THEN Inf ELSE cosineSimilarityDistance(Vec(p), Vec(q))

Dist(p, q) == cosineSimilarityDistance(Vec(p), Vec(q))

\* the ids of a cluster map in enumeration order
Ids(cl) == DOMAIN cl
\* Object.values(clusters).flat() as a set
Flat(cl) == UNION { { cl[c][m] : m \in 1..Len(cl[c]) } : c \in Ids(cl) }

----------------------------------------------------------------------------
(* Cluster quality: silhouette and coherence.                              *)

\* sum of the distances from point p to the entries pts[1..m] other than p itself
RECURSIVE IntraSum(_, _, _)
IntraSum(p, pts, m) ==
    IF m = 0 THEN RZero
    ELSE IF pts[m] # p THEN RAdd(IntraSum(p, pts, m - 1), Dist(p, pts[m]))
    ELSE IntraSum(p, pts, m - 1)

\* sum of the distances from point p to the entries pts[1..m]
RECURSIVE InterSum(_, _, _)
InterSum(p, pts, m) ==
    IF m = 0 THEN RZero
    ELSE RAdd(InterSum(p, pts, m - 1), Dist(p, pts[m]))

\* a(i): average distance to the other points of the own cluster
PointA(p, pts) ==
    IF Len(pts) > 1 THEN RDiv(IntraSum(p, pts, Len(pts)), RInt(Len(pts) - 1))
    ELSE RZero

AvgDistTo(p, pts) ==
    IF Len(pts) > 0 THEN RDiv(InterSum(p, pts, Len(pts)), RInt(Len(pts)))
    ELSE Inf

\* b(i): minimum over the other clusters (ids in S) of the average distance
RECURSIVE MinInter(_, _, _)
MinInter(p, cl, S) ==
    IF S = {} THEN Inf
    ELSE LET c == CHOOSE x \in S : TRUE
         IN  RMin(MinInter(p, cl, S \ {c}), AvgDistTo(p, cl[c]))

PointB(p, cl, own) == MinInter(p, cl, Ids(cl) \ {own})

\* a scorer that uses 1 - a/b on both sides of a = b
PointSilhouetteOneSided(a, b) ==
    IF a.n = 0 /\ b.n = 0 THEN RZero
    ELSE RSub(ROne, RDiv(a, b))

\* a scorer whose second branch has the sign reversed
PointSilhouetteReversed(a, b) ==
    IF a.n = 0 /\ b.n = 0 THEN RZero
    ELSE IF RLess(a, b) THEN RSub(ROne, RDiv(a, b))
    ELSE RSub(ROne, RDiv(b, a))

\* the piecewise per-point value
PointSilhouette(a, b) ==
    IF a.n = 0 /\ b.n = 0 THEN RZero
    ELSE IF RLess(a, b) THEN RSub(ROne, RDiv(a, b))
    ELSE RSub(RDiv(b, a), ROne)

SilhouetteOf(p, cl, own) == PointSilhouette(PointA(p, cl[own]), PointB(p, cl, own))

\* the (cluster id, position) pairs the two nested loops run over
Entries(cl) == UNION { { <<c, m>> : m \in 1..Len(cl[c]) } : c \in Ids(cl) }

RECURSIVE TotalSilhouette(_, _)
TotalSilhouette(cl, E) ==
    IF E = {} THEN RZero
    ELSE LET e == CHOOSE x \in E : TRUE
         IN  RAdd(TotalSilhouette(cl, E \ {e}), SilhouetteOf(cl[e[1]][e[2]], cl, e[1]))

\* a scorer without the guards on the cluster count and the point count
calculateSilhouetteScoreUnguarded(cl) ==
    RDiv(TotalSilhouette(cl, Entries(cl)), RInt(Cardinality(Entries(cl))))

calculateSilhouetteScore(cl) ==
    IF Cardinality(Ids(cl)) <= 1 THEN RZero
    ELSE LET totalPoints == Cardinality(Entries(cl))
         IN  IF totalPoints > 0
             THEN RDiv(TotalSilhouette(cl, Entries(cl)), RInt(totalPoints))
             ELSE RZero

\* sum of cosineSimilarity over the pairs (x, y), x < y, of positions of pts
RECURSIVE PairSimSum(_, _)
PairSimSum(pts, P) ==
    IF P = {} THEN RZero
    ELSE LET e == CHOOSE x \in P : TRUE
         IN  RAdd(PairSimSum(pts, P \ {e}),
                  cosineSimilarity(Vec(pts[e[1]]), Vec(pts[e[2]])))

Pairs(pts) == { e \in (1..Len(pts)) \X (1..Len(pts)) : e[1] < e[2] }

\* coherence of one cluster: 1.0 for size <= 1, else the average pairwise similarity
Coherence(pts) ==
    IF Len(pts) <= 1 THEN ROne
    ELSE RDiv(PairSimSum(pts, Pairs(pts)), RInt(Cardinality(Pairs(pts))))

clusterCoherenceOf(cl) == [c \in Ids(cl) |-> Coherence(cl[c])]

----------------------------------------------------------------------------
(* DBSCAN: runDBSCAN (route.ts) and dbscanClustering (utils).              *)

EmptyMap == <<>>

\* the indices x < m within eps of pointIdx, in ascending order
RECURSIVE NeighborsUpTo(_, _)
NeighborsUpTo(pointIdx, m) ==
    IF m = 0 THEN <<>>
    ELSE IF RLeq(Dist(pointIdx, m - 1), eps)
         THEN Append(NeighborsUpTo(pointIdx, m - 1), m - 1)
         ELSE NeighborsUpTo(pointIdx, m - 1)

\* a neighbourhood that leaves the point itself out
getNeighborsOfOthers(pointIdx) ==
    SelectSeq(NeighborsUpTo(pointIdx, N), LAMBDA x : x # pointIdx)

getNeighbors(pointIdx) == NeighborsUpTo(pointIdx, N)

InSeq(x, s) == \E m \in 1..Len(s) : s[m] = x

\* a push that does not look whether the queue holds the entry already
PushAll(nb, cur, m) == nb \o SubSeq(cur, 1, m)

\* neighbors after pushing every entry of cur[1..m] it does not include yet
RECURSIVE PushNew(_, _, _)
PushNew(nb, cur, m) ==
    IF m = 0 THEN nb
    ELSE LET sofar == PushNew(nb, cur, m - 1)
         IN  IF InSeq(cur[m], sofar) THEN sofar ELSE Append(sofar, cur[m])

\* the cluster map with key id set to pts
Put(cl, id, pts) == [c \in Ids(cl) \cup {id} |-> IF c = id THEN pts ELSE cl[c]]

\* "Handle noise points": each of up to 3 noise points its own cluster, more
\* than 3 one cluster
RECURSIVE FoldSingles(_, _, _, _)
FoldSingles(cl, base, ns, m) ==
    IF m = 0 THEN cl
    ELSE Put(FoldSingles(cl, base, ns, m - 1), base + m - 1, <<ns[m]>>)

NoiseLimit == 3

\* a return path that leaves the noise list out of the cluster map
FoldNoiseDropped(cl, base, ns) == cl

\* a folding that groups the noise points already at the limit
FoldNoiseStrict(cl, base, ns) ==
    IF Len(ns) > 0
    THEN IF Len(ns) < NoiseLimit
         THEN FoldSingles(cl, base, ns, Len(ns))
         ELSE Put(cl, base, ns)
    ELSE cl

FoldNoise(cl, base, ns) ==
    IF Len(ns) > 0
    THEN IF Len(ns) <= NoiseLimit
         THEN FoldSingles(cl, base, ns, Len(ns))
         ELSE Put(cl, base, ns)
    ELSE cl

\* entry of runDBSCAN, and of dbscanClustering on a non-empty list
DBStart ==
    /\ pc = "dbscan"
    /\ ~(impl = "dbscanClustering" /\ N = 0)
    /\ visited' = [x \in Indices |-> FALSE]
    /\ noise' = <<>>
    /\ dbClusters' = EmptyMap
    /\ clusterIdx' = 0
    /\ i' = 0
    /\ neighborhoodCalls' = [x \in Indices |-> 0]
    /\ pc' = "db_outer"
    /\ UNCHANGED <<impl, vectors, kmVars, eps, minPts, neighbors, j, dbscanResult,
                   selVars, lblVars>>
    /\ UNCHANGED <<embVars, genVars, runVars, formulas, retry>>

\* dbscanClustering: early return on an empty list
DBEmptyReturn ==
    /\ pc = "dbscan"
    /\ impl = "dbscanClustering" /\ N = 0
    /\ pc' = "db_done"
    /\ dbscanResult' = [clusters |-> EmptyMap, silhouetteScore |-> RZero]
    /\ UNCHANGED <<impl, vectors, kmVars, eps, minPts, visited, noise, dbClusters,
                   clusterIdx, i, neighbors, j, selVars, lblVars>>
    /\ UNCHANGED <<embVars, genVars, runVars, auxVars>>

\* one pass of the outer for loop up to the start of the expansion
DBOuter ==
    /\ pc = "db_outer"
    /\ i < N
    /\ IF visited[i]
       THEN /\ i' = i + 1
            /\ UNCHANGED <<pc, visited, noise, dbClusters, neighbors, j, neighborhoodCalls>>
       ELSE LET nb == getNeighbors(i)
            IN  /\ visited' = [visited EXCEPT ![i] = TRUE]
                /\ neighborhoodCalls' = [neighborhoodCalls EXCEPT ![i] = @ + 1]
                /\ IF Len(nb) < minPts
                   THEN /\ noise' = Append(noise, i)
                        /\ i' = i + 1
                        /\ UNCHANGED <<pc, dbClusters, neighbors, j>>
                   ELSE /\ dbClusters' = Put(dbClusters, clusterIdx, <<i>>)
                        /\ neighbors' = nb
                        /\ j' = 0
                        /\ pc' = "db_expand"
                        /\ UNCHANGED <<noise, i>>
    /\ UNCHANGED <<impl, vectors, kmVars, eps, minPts, clusterIdx, dbscanResult,
                   selVars, lblVars>>
    /\ UNCHANGED <<embVars, genVars, runVars, formulas, retry>>

\* one pass of the while loop over the expansion queue
DBExpand ==
    /\ pc = "db_expand"
    /\ j < Len(neighbors)
    /\ LET currentPoint == neighbors[j + 1]
           currentNeighbors == getNeighbors(currentPoint)
       IN  /\ IF ~visited[currentPoint]
              THEN /\ visited' = [visited EXCEPT ![currentPoint] = TRUE]
                   /\ neighborhoodCalls' =
                        [neighborhoodCalls EXCEPT ![currentPoint] = @ + 1]
                   /\ neighbors' =
                        IF Len(currentNeighbors) >= minPts
                        THEN PushNew(neighbors, currentNeighbors, Len(currentNeighbors))
                        ELSE neighbors
              ELSE UNCHANGED <<visited, neighbors, neighborhoodCalls>>
           /\ dbClusters' =
                IF currentPoint \notin Flat(dbClusters)
                THEN [dbClusters EXCEPT ![clusterIdx] = Append(@, currentPoint)]
                ELSE dbClusters
    /\ j' = j + 1
    /\ UNCHANGED <<pc, impl, vectors, kmVars, eps, minPts, noise, clusterIdx, i,
                   dbscanResult, selVars, lblVars>>
    /\ UNCHANGED <<embVars, genVars, runVars, formulas, retry>>

\* the queue is exhausted: clusterIdx++ and the next pass of the for loop
DBClose ==
    /\ pc = "db_expand"
    /\ j >= Len(neighbors)
    /\ clusterIdx' = clusterIdx + 1
    /\ i' = i + 1
    /\ pc' = "db_outer"
    /\ UNCHANGED <<impl, vectors, kmVars, eps, minPts, visited, noise, dbClusters,
                   neighbors, j, dbscanResult, selVars, lblVars>>
    /\ UNCHANGED <<embVars, genVars, runVars, auxVars>>

\* after the main loop: noise folding, silhouette, coherence, return
DBReturn ==
    /\ pc = "db_outer"
    /\ i >= N
    /\ pc' = IF impl = "runOptimalClustering" THEN "select" ELSE "db_done"
    /\ LET final == FoldNoise(dbClusters, clusterIdx, noise)
       IN  /\ dbClusters' = final
           /\ dbscanResult' =
                IF impl = "dbscanClustering"
                THEN [clusters |-> final,
                      silhouetteScore |-> calculateSilhouetteScore(final),
                      noisePoints |-> Len(noise),
                      clusterCount |-> Cardinality(Ids(final))]
                ELSE [clusters |-> final,
                      clusterCoherence |-> clusterCoherenceOf(final),
                      silhouetteScore |-> calculateSilhouetteScore(final)]
    /\ UNCHANGED <<impl, vectors, kmVars, eps, minPts, visited, noise, clusterIdx, i,
                   neighbors, j, selVars, lblVars>>
    /\ UNCHANGED <<embVars, genVars, runVars, auxVars>>

----------------------------------------------------------------------------
(* K-Means: runKMeans (route.ts) and kMeansClustering (utils).             *)

\* the values Math.random() is drawn from: x / RandSteps, 0 <= x < RandSteps
Rand == { Rat(x, RandSteps) : x \in 0..(RandSteps - 1) }

\* the record of the draws after Math.random() returned r
Drawn(r) == IF firstRun.state = "none" THEN draws ELSE Append(draws, r)

Centroid(v) == [sum |-> v, cnt |-> 1]

\* the unused indices below m, ascending
RECURSIVE UnusedUpTo(_, _)
UnusedUpTo(U, m) ==
    IF m = 0 THEN <<>>
    ELSE IF (m - 1) \in U THEN UnusedUpTo(U, m - 1)
    ELSE Append(UnusedUpTo(U, m - 1), m - 1)

Unused(U) == UnusedUpTo(U, N)

\* minimum distance of point p to the centroids cs[1..m] (copies of input vectors)
RECURSIVE MinDistUpTo(_, _, _)
MinDistUpTo(p, cs, m) ==
    IF m = 0 THEN Inf
    ELSE RMin(MinDistUpTo(p, cs, m - 1), cosineSimilarityDistance(Vec(p), cs[m].sum))

MinDist(p, cs) == MinDistUpTo(p, cs, Len(cs))
DistSquared(p, cs) == LET minDist == MinDist(p, cs) IN RMul(minDist, minDist)

\* the array distances: the squared minimum distance of each unused index
RECURSIVE DistancesUpTo(_, _, _)
DistancesUpTo(un, cs, m) ==
    IF m = 0 THEN <<>>
    ELSE Append(DistancesUpTo(un, cs, m - 1), DistSquared(un[m], cs))

Distances(un, cs) == DistancesUpTo(un, cs, Len(un))

RECURSIVE SumUpTo(_, _)
SumUpTo(ds, m) == IF m = 0 THEN RZero ELSE RAdd(SumUpTo(ds, m - 1), ds[m])

TotalDistance(ds) == SumUpTo(ds, Len(ds))

\* roulette wheel: the first unused index whose cumulative sum reaches the
\* threshold, -1 when none does
RECURSIVE RouletteFrom(_, _, _, _, _)
RouletteFrom(un, ds, threshold, m, sum) ==
    IF m > Len(un) THEN -1
    ELSE LET next == RAdd(sum, ds[m])
         IN  IF RLeq(threshold, next) THEN un[m]
             ELSE RouletteFrom(un, ds, threshold, m + 1, next)

Roulette(un, ds, threshold) == RouletteFrom(un, ds, threshold, 1, RZero)

\* kMeansClustering's fallback: the unused index with the greatest minimum
\* distance, the first one on ties (-1 when every index is used)
Farthest(un, cs) ==
    IF Len(un) = 0 THEN -1
    ELSE un[CHOOSE m \in 1..Len(un) :
               /\ \A x \in 1..Len(un) : RLeq(MinDist(un[x], cs), MinDist(un[m], cs))
               /\ \A x \in 1..(m - 1) : RLess(MinDist(un[x], cs), MinDist(un[m], cs))]

\* cosine similarity of v and a centroid, as p / (|v| * sqrt(q)); 0 when a norm is 0
SimTo(v, c) ==
    IF DotUpTo(v, v, Len(v)) = 0 \/ DotUpTo(c.sum, c.sum, Len(c.sum)) = 0
    THEN [p |-> 0, q |-> 1]
    ELSE [p |-> Dot(v, c.sum), q |-> DotUpTo(c.sum, c.sum, Len(c.sum))]

\* x.p / sqrt(x.q) > y.p / sqrt(y.q)
SimGreater(x, y) ==
    IF x.p >= 0 /\ y.p >= 0 THEN x.p * x.p * y.q > y.p * y.p * x.q
    ELSE IF x.p >= 0 THEN TRUE
    ELSE IF y.p >= 0 THEN FALSE
    ELSE x.p * x.p * y.q < y.p * y.p * x.q

\* the centroid nearest to point p among cs[1..m]: the first of the nearest ones
\* (dist < minDist is similarity > the best similarity so far); 0-based
RECURSIVE NearestUpTo(_, _, _)
NearestUpTo(p, cs, m) ==
    IF m <= 1 THEN 0
    ELSE LET best == NearestUpTo(p, cs, m - 1)
         IN  IF SimGreater(SimTo(Vec(p), cs[m]), SimTo(Vec(p), cs[best + 1]))
             THEN m - 1 ELSE best

Nearest(p, cs) == NearestUpTo(p, cs, Len(cs))

\* bestCentroid of the indices below m, in index order
RECURSIVE NearestOfUpTo(_, _)
NearestOfUpTo(cs, m) ==
    IF m = 0 THEN <<>> ELSE Append(NearestOfUpTo(cs, m - 1), Nearest(m - 1, cs))

\* the indices below m whose bestCentroid is c, in push order
RECURSIVE AssignedUpTo(_, _, _)
AssignedUpTo(c, near, m) ==
    IF m = 0 THEN <<>>
    ELSE IF near[m] = c THEN Append(AssignedUpTo(c, near, m - 1), m - 1)
    ELSE AssignedUpTo(c, near, m - 1)

\* "Assign points to nearest centroid" over the k initialised clusters
Assign(kk, cs) ==
    LET near == NearestOfUpTo(cs, N)
    IN  [c \in 0..(kk - 1) |-> AssignedUpTo(c, near, N)]

RECURSIVE VecSum(_, _)
VecSum(pts, m) ==
    IF m = 0 THEN [d \in 1..Len(vectors[1]) |-> 0]
    ELSE LET rest == VecSum(pts, m - 1)
         IN  [d \in 1..Len(vectors[1]) |-> rest[d] + Vec(pts[m])[d]]

\* the mean of the points of a non-empty cluster
Mean(pts) == [sum |-> VecSum(pts, Len(pts)), cnt |-> Len(pts)]

\* "Update centroids": clusters with no point keep their centroid
UpdateCentroids(cs, cl) ==
    [m \in 1..Len(cs) |->
        IF (m - 1) \in Ids(cl) /\ Len(cl[m - 1]) > 0 THEN Mean(cl[m - 1]) ELSE cs[m]]

\* 1 - cosineSimilarity(old, new) > 0.001, i.e. the cosine is below 999/1000
MovedFar(old, new) ==
    LET a == DotUpTo(old.sum, old.sum, Len(old.sum))
        b == DotUpTo(new.sum, new.sum, Len(new.sum))
        dot == Dot(old.sum, new.sum)
    IN  IF a = 0 \/ b = 0 THEN TRUE
        ELSE IF dot < 0 THEN TRUE
        ELSE FracLess(dot * dot, a * b, 998001, 1000000)

\* the last cluster of maximal size among ids 0..m-1
RECURSIVE LastLargestUpTo(_, _)
LastLargestUpTo(cl, m) ==
    IF m <= 1 THEN 0
    ELSE LET best == LastLargestUpTo(cl, m - 1)
         IN  IF Len(cl[m - 1]) >= Len(cl[best]) THEN m - 1 ELSE best

\* the first cluster of maximal size among ids 0..m-1 (0 when all are empty)
RECURSIVE LargestUpTo(_, _)
LargestUpTo(cl, m) ==
    IF m <= 1 THEN 0
    ELSE LET best == LargestUpTo(cl, m - 1)
         IN  IF Len(cl[m - 1]) > Len(cl[best]) THEN m - 1 ELSE best

CeilHalf(x) == (x + 1) \div 2

\* a repair that copies the moved points and leaves them in the largest cluster
RECURSIVE RepairCopyingUpTo(_, _, _)
RepairCopyingUpTo(st, kk, m) ==
    IF m = 0 THEN st
    ELSE LET prev == RepairCopyingUpTo(st, kk, m - 1)
             e == m - 1
             largestCluster == LargestUpTo(prev.cl, kk)
             big == prev.cl[largestCluster]
             movedPoints == SubSeq(big, 1, CeilHalf(Len(big)))
             cl2 == [prev.cl EXCEPT ![e] = movedPoints]
         IN  IF Len(prev.cl[e]) = 0 /\ Len(big) >= 2
             THEN [cl |-> cl2,
                   cs |-> [prev.cs EXCEPT ![e + 1] = Mean(cl2[e])],
                   changed |-> TRUE]
             ELSE prev

\* "Check for empty clusters and reinitialize": passes 0..m-1 of the repair loop
\* over the record [cl, cs, changed]
RECURSIVE RepairUpTo(_, _, _)
RepairUpTo(st, kk, m) ==
    IF m = 0 THEN st
    ELSE LET prev == RepairUpTo(st, kk, m - 1)
             e == m - 1
             largestCluster == LargestUpTo(prev.cl, kk)
             big == prev.cl[largestCluster]
             pointsToMove == CeilHalf(Len(big))
             movedPoints == SubSeq(big, 1, pointsToMove)
             kept == SubSeq(big, pointsToMove + 1, Len(big))
             cl2 == [prev.cl EXCEPT ![largestCluster] = kept, ![e] = movedPoints]
         IN  IF Len(prev.cl[e]) = 0 /\ Len(big) >= 2
             THEN [cl |-> cl2,
                   cs |-> [prev.cs EXCEPT ![e + 1] = Mean(cl2[e]),
                                          ![largestCluster + 1] = Mean(cl2[largestCluster])],
                   changed |-> TRUE]
             ELSE prev

\* some updated centroid moved by more than the threshold
AnyMoved(cs, cl) ==
    \E c \in Ids(cl) : Len(cl[c]) > 0 /\ MovedFar(cs[c + 1], Mean(cl[c]))

\* "Remove empty clusters"
DropEmpty(cl) == [c \in { x \in Ids(cl) : Len(cl[x]) > 0 } |-> cl[c]]

\* a call that keeps the k it was given
ClampKOff(n, kk) == kk

\* "if (vectors.length < k) k = vectors.length"
ClampK(n, kk) == IF n < kk THEN n ELSE kk

IsRoute == impl \in {"runKMeans", "runOptimalClustering"}

kmUnchanged == <<impl, vectors, kArg, dbVars, selVars, lblVars, embVars, genVars, runVars, auxVars>>

\* entry of runKMeans: clamp k, draw the first centroid.  On an empty list
\* vectors[firstIndex] is undefined and spreading it throws a TypeError.
RunKMeansStart ==
    /\ pc = "kmeans"
    /\ IsRoute
    /\ LET kk == ClampK(N, k)
       IN  /\ k' = kk
           /\ \E r \in Rand :
                LET firstIndex == RFloor(RMul(r, RInt(N)))
                IN  IF N = 0
                    THEN /\ pc' = "threw"
                         /\ draws' = Drawn(r)
                         /\ UNCHANGED <<centroids, used>>
                    ELSE /\ centroids' = <<Centroid(Vec(firstIndex))>>
                         /\ used' = {firstIndex}
                         /\ draws' = Drawn(r)
                         /\ pc' = IF 1 < kk THEN "km_seed"
                                  ELSE IF 0 < maxIterations THEN "km_iter"
                                  ELSE "km_return"
    /\ UNCHANGED <<maxIterations, seedI, clusters, bestClusters, bestSilhouette,
                   iterations, converged, kmeansResult,
                   history>>
    /\ UNCHANGED kmUnchanged

\* one pass of runKMeans' while loop choosing the remaining centroids
RunKMeansSeed ==
    /\ pc = "km_seed"
    /\ IsRoute
    /\ Len(centroids) < k
    /\ LET un == Unused(used)
           distances == Distances(un, centroids)
           totalDistance == TotalDistance(distances)
           after(cs) == IF Len(cs) < k THEN "km_seed"
                        ELSE IF 0 < maxIterations THEN "km_iter" ELSE "km_return"
           leave == IF 0 < maxIterations THEN "km_iter" ELSE "km_return"
       IN  IF totalDistance.n = 0
           THEN /\ pc' = leave
                /\ UNCHANGED <<centroids, used, draws>>
           ELSE \E r \in Rand :
                  LET threshold == RMul(r, totalDistance)
                      picked == Roulette(un, distances, threshold)
                      nextIndex == IF picked = -1 /\ Len(un) > 0 THEN un[1] ELSE picked
                  IN  IF nextIndex = -1
                      THEN /\ pc' = leave
                           /\ draws' = Drawn(r)
                           /\ UNCHANGED <<centroids, used>>
                      ELSE /\ draws' = Drawn(r)
                           /\ centroids' = Append(centroids, Centroid(Vec(nextIndex)))
                           /\ used' = used \cup {nextIndex}
                           /\ pc' = after(centroids')
    /\ UNCHANGED <<k, maxIterations, seedI, clusters, bestClusters, bestSilhouette,
                   iterations, converged, kmeansResult,
                   history>>
    /\ UNCHANGED kmUnchanged

\* a comparison that keeps only snapshots of positive score
ImprovesWhenPositive(score, best) == RLess(best, score) /\ RLess(RZero, score)

\* a comparison that lets an equal score replace the snapshot
ImprovesOrTies(score, best) == RLeq(best, score)

\* "if (silhouetteScore > bestSilhouette)"
Improves(score, best) == RLess(best, score)

\* one pass of runKMeans' for loop: assign, update centroids, score, keep the best.
\* With k = 0 no cluster is initialised and clusters[0].push throws a TypeError.
RunKMeansIterate ==
    /\ pc = "km_iter"
    /\ IsRoute
    /\ iterations < maxIterations
    /\ IF k = 0
       THEN /\ pc' = "threw"
            /\ iterations' = iterations + 1
            /\ UNCHANGED <<clusters, centroids, bestClusters, bestSilhouette, history>>
       ELSE LET cl == Assign(k, centroids)
                silhouetteScore == calculateSilhouetteScore(cl)
            IN  /\ iterations' = iterations + 1
                /\ clusters' = cl
                /\ history' = Append(history, [clusters |-> cl,
                                                moved |-> AnyMoved(centroids, cl)])
                /\ centroids' = UpdateCentroids(centroids, cl)
                /\ IF Improves(silhouetteScore, bestSilhouette)
                   THEN /\ bestSilhouette' = silhouetteScore
                        /\ bestClusters' = cl
                   ELSE UNCHANGED <<bestSilhouette, bestClusters>>
                /\ pc' = IF iterations + 1 < maxIterations THEN "km_iter" ELSE "km_return"
    /\ UNCHANGED <<k, maxIterations, used, seedI, converged, kmeansResult>>
    /\ UNCHANGED kmUnchanged
    /\ UNCHANGED draws

\* runKMeans after the loop: coherence of the best snapshot, return
RunKMeansReturn ==
    /\ pc = "km_return"
    /\ IsRoute
    /\ kmeansResult' = [clusters |-> bestClusters,
                        clusterCoherence |-> clusterCoherenceOf(bestClusters),
                        silhouetteScore |-> bestSilhouette,
                        iterations |-> iterations]
    /\ pc' = IF impl = "runOptimalClustering" THEN "dbscan" ELSE "km_done"
    /\ UNCHANGED <<k, maxIterations, centroids, used, seedI, clusters, bestClusters,
                   bestSilhouette, iterations, converged,
                   history>>
    /\ UNCHANGED kmUnchanged
    /\ UNCHANGED draws

\* kMeansClustering: early return on an empty list
KMeansClusteringEmpty ==
    /\ pc = "kmeans"
    /\ impl = "kMeansClustering" /\ N = 0
    /\ kmeansResult' = [clusters |-> EmptyMap, centroids |-> <<>>,
                        silhouetteScore |-> RZero, k |-> k, iterations |-> 0]
    /\ pc' = "km_done"
    /\ UNCHANGED <<k, maxIterations, centroids, used, seedI, clusters, bestClusters,
                   bestSilhouette, iterations, converged,
                   history>>
    /\ UNCHANGED kmUnchanged
    /\ UNCHANGED draws

\* entry of kMeansClustering on a non-empty list: clamp k, draw the first centroid
KMeansClusteringStart ==
    /\ pc = "kmeans"
    /\ impl = "kMeansClustering" /\ N # 0
    /\ LET kk == ClampK(N, k)
       IN  /\ k' = kk
           /\ \E r \in Rand :
                LET firstIndex == RFloor(RMul(r, RInt(N)))
                IN  /\ centroids' = <<Centroid(Vec(firstIndex))>>
                    /\ used' = {firstIndex}
                    /\ draws' = Drawn(r)
           /\ seedI' = 1
           /\ pc' = IF 1 < kk THEN "km_seed"
                    ELSE IF 0 < maxIterations THEN "km_iter" ELSE "km_return"
    /\ UNCHANGED <<maxIterations, clusters, bestClusters, bestSilhouette, iterations,
                   converged, kmeansResult,
                   history>>
    /\ UNCHANGED kmUnchanged

\* one pass of kMeansClustering's for loop choosing the remaining centroids
KMeansClusteringSeed ==
    /\ pc = "km_seed"
    /\ impl = "kMeansClustering"
    /\ seedI < k
    /\ LET un == Unused(used)
           distances == Distances(un, centroids)
           totalDistance == TotalDistance(distances)
       IN  \E r \in Rand :
             LET threshold == RMul(r, totalDistance)
                 picked == Roulette(un, distances, threshold)
                 nextCentroidIndex ==
                     IF picked = -1 THEN Farthest(un, centroids) ELSE picked
             IN  /\ draws' = Drawn(r)
                 /\ IF nextCentroidIndex # -1
                    THEN /\ centroids' = Append(centroids, Centroid(Vec(nextCentroidIndex)))
                         /\ used' = used \cup {nextCentroidIndex}
                    ELSE UNCHANGED <<centroids, used>>
    /\ seedI' = seedI + 1
    /\ pc' = IF seedI + 1 < k THEN "km_seed"
             ELSE IF 0 < maxIterations THEN "km_iter" ELSE "km_return"
    /\ UNCHANGED <<k, maxIterations, clusters, bestClusters, bestSilhouette, iterations,
                   converged, kmeansResult,
                   history>>
    /\ UNCHANGED kmUnchanged

\* one pass of kMeansClustering's while loop: assign, update centroids, repair
\* empty clusters, test convergence.  With k = 0 clusters[0].push throws.
KMeansClusteringIterate ==
    /\ pc = "km_iter"
    /\ impl = "kMeansClustering"
    /\ ~converged /\ iterations < maxIterations
    /\ IF k = 0
       THEN /\ pc' = "threw"
            /\ UNCHANGED <<clusters, centroids, converged, iterations, history>>
       ELSE LET cl == Assign(k, centroids)
                st == RepairUpTo([cl |-> cl,
                                  cs |-> UpdateCentroids(centroids, cl),
                                  changed |-> AnyMoved(centroids, cl)], k, k)
            IN  /\ clusters' = st.cl
                /\ history' = Append(history, [clusters |-> st.cl,
                                                moved |-> AnyMoved(centroids, cl)])
                /\ centroids' = st.cs
                /\ converged' = ~st.changed
                /\ iterations' = iterations + 1
                /\ pc' = IF st.changed /\ iterations + 1 < maxIterations
                         THEN "km_iter" ELSE "km_return"
    /\ UNCHANGED <<k, maxIterations, used, seedI, bestClusters, bestSilhouette,
                   kmeansResult>>
    /\ UNCHANGED kmUnchanged
    /\ UNCHANGED draws

\* kMeansClustering after the loop: silhouette, removal of empty clusters, return
KMeansClusteringReturn ==
    /\ pc = "km_return"
    /\ impl = "kMeansClustering"
    /\ clusters' = DropEmpty(clusters)
    /\ kmeansResult' = [clusters |-> DropEmpty(clusters), centroids |-> centroids,
                        silhouetteScore |-> calculateSilhouetteScore(clusters),
                        k |-> k, iterations |-> iterations,
                        clusterCount |-> Cardinality(Ids(DropEmpty(clusters)))]
    /\ pc' = "km_done"
    /\ UNCHANGED <<k, maxIterations, centroids, used, seedI, bestClusters,
                   bestSilhouette, iterations, converged,
                   history>>
    /\ UNCHANGED kmUnchanged
    /\ UNCHANGED draws

----------------------------------------------------------------------------
(* Algorithm selector: runOptimalClustering (route.ts), and the parameter  *)
(* derivation it shares with findOptimalParameters (semantic-clustering).  *)

Max2(a, b) == IF a > b THEN a ELSE b
Min2(a, b) == IF a < b THEN a ELSE b

\* Math.ceil(Math.sqrt(n / 2)): the least c with c * c >= n / 2
RECURSIVE CeilSqrtHalfFrom(_, _)
CeilSqrtHalfFrom(n, c) == IF 2 * c * c >= n THEN c ELSE CeilSqrtHalfFrom(n, c + 1)

CeilSqrtHalf(n) == CeilSqrtHalfFrom(n, 0)

\* a derivation of k without the lower clamp
SelectorKUnclamped(n) == Min2(CeilSqrtHalf(n), 10)

\* k = Math.min(Math.max(2, Math.ceil(Math.sqrt(documentCount / 2))), 10)
SelectorK(n) == Min2(Max2(2, CeilSqrtHalf(n)), 10)

\* minPts = Math.max(2, Math.min(4, Math.floor(documentCount / 10)))
SelectorMinPts(n) == Max2(2, Min2(4, n \div 10))

\* maxIterations of runKMeans when the caller passes none
DefaultMaxIterations == 20

AllPairs == { e \in Indices \X Indices : e[1] < e[2] }

RECURSIVE PairDistSum(_)
PairDistSum(P) ==
    IF P = {} THEN RZero
    ELSE LET e == CHOOSE x \in P : TRUE
         IN  RAdd(PairDistSum(P \ {e}), Dist(e[1], e[2]))

\* mean pairwise distance of the embeddings, 0.5 when there is no pair
AvgDistance ==
    IF Cardinality(AllPairs) > 0
    THEN RDiv(PairDistSum(AllPairs), RInt(Cardinality(AllPairs)))
    ELSE Rat(1, 2)

SelectorEpsilon == RMul(AvgDistance, Rat(3, 2))

\* runOptimalClustering up to the call of runKMeans(embeddings, k)
RunOptimalClustering ==
    /\ pc = "optimal"
    /\ impl = "runOptimalClustering"
    /\ k' = SelectorK(documentCount)
    /\ kArg' = SelectorK(documentCount)
    /\ eps' = SelectorEpsilon
    /\ minPts' = SelectorMinPts(documentCount)
    /\ maxIterations' = DefaultMaxIterations
    /\ pc' = "kmeans"
    /\ UNCHANGED <<impl, vectors, centroids, used, seedI, clusters, bestClusters,
                   bestSilhouette, iterations, converged, kmeansResult, visited, noise,
                   dbClusters, clusterIdx, i, neighbors, j, dbscanResult, selVars,
                   lblVars,
                   history>>
    /\ UNCHANGED <<embVars, genVars, runVars, auxVars>>
    /\ UNCHANGED draws

\* a selector with the comparison reversed
ChooseWorse(km, db, kk, e, mp) ==
    IF RLess(db.silhouetteScore, km.silhouetteScore)
    THEN [clusters |-> db.clusters, clusterCoherence |-> db.clusterCoherence,
          silhouetteScore |-> db.silhouetteScore, algorithm |-> "DBSCAN",
          algorithmDetails |-> [epsilon |-> e, minPts |-> mp,
                                clusterCount |-> Cardinality(Ids(db.clusters))]]
    ELSE [clusters |-> km.clusters, clusterCoherence |-> km.clusterCoherence,
          silhouetteScore |-> km.silhouetteScore, iterations |-> km.iterations,
          algorithm |-> "K-means",
          algorithmDetails |-> [k |-> kk, iterations |-> km.iterations,
                                clusterCount |-> Cardinality(Ids(km.clusters))]]

\* a selector that takes DBSCAN also when the two scores are equal
ChooseDBSCANOnTie(km, db, kk, e, mp) ==
    IF RLeq(km.silhouetteScore, db.silhouetteScore)
    THEN [clusters |-> db.clusters, clusterCoherence |-> db.clusterCoherence,
          silhouetteScore |-> db.silhouetteScore, algorithm |-> "DBSCAN",
          algorithmDetails |-> [epsilon |-> e, minPts |-> mp,
                                clusterCount |-> Cardinality(Ids(db.clusters))]]
    ELSE [clusters |-> km.clusters, clusterCoherence |-> km.clusterCoherence,
          silhouetteScore |-> km.silhouetteScore, iterations |-> km.iterations,
          algorithm |-> "K-means",
          algorithmDetails |-> [k |-> kk, iterations |-> km.iterations,
                                clusterCount |-> Cardinality(Ids(km.clusters))]]

\* the candidate whose silhouette is higher: DBSCAN only when strictly higher
ChooseBetter(km, db, kk, e, mp) ==
    IF RLess(km.silhouetteScore, db.silhouetteScore)
    THEN [clusters |-> db.clusters, clusterCoherence |-> db.clusterCoherence,
          silhouetteScore |-> db.silhouetteScore, algorithm |-> "DBSCAN",
          algorithmDetails |-> [epsilon |-> e, minPts |-> mp,
                                clusterCount |-> Cardinality(Ids(db.clusters))]]
    ELSE [clusters |-> km.clusters, clusterCoherence |-> km.clusterCoherence,
          silhouetteScore |-> km.silhouetteScore, iterations |-> km.iterations,
          algorithm |-> "K-means",
          algorithmDetails |-> [k |-> kk, iterations |-> km.iterations,
                                clusterCount |-> Cardinality(Ids(km.clusters))]]

\* runOptimalClustering after both engines returned: "Choose the better algorithm"
RunOptimalClusteringReturn ==
    /\ pc = "select"
    /\ impl = "runOptimalClustering"
    /\ selected' = ChooseBetter(kmeansResult, dbscanResult, k, eps, minPts)
    /\ pc' = "optimal_done"
    /\ UNCHANGED <<impl, vectors, kmVars, dbVars, documentCount, lblVars>>
    /\ UNCHANGED <<embVars, genVars, runVars, auxVars>>

\* the parameter derivation alone, on a document count without embeddings
DeriveParameters ==
    /\ pc = "params"
    /\ k' = SelectorK(documentCount)
    /\ minPts' = SelectorMinPts(documentCount)
    /\ pc' = "params_done"
    /\ UNCHANGED <<impl, vectors, maxIterations, centroids, used, seedI, clusters,
                   bestClusters, bestSilhouette, iterations, converged, kmeansResult,
                   eps, visited, noise, dbClusters, clusterIdx, i, neighbors, j,
                   dbscanResult, selVars, lblVars,
                   history, kArg>>
    /\ UNCHANGED <<embVars, genVars, runVars, auxVars>>
    /\ UNCHANGED draws

----------------------------------------------------------------------------
(* POST: "Ensure all cluster labels are unique" (route.ts).                *)

\* labels generateClusterLabel can return: a category label, "<terms> Documents"
\* built from \w-only terms, or "Documents"; none contains a parenthesis
GeneratedLabels == { "Sports", "Web Development", "Documents" }

\* a suffix that ignores the running count
SuffixedOnce(label, count) == label \o " (2)"

\* `${label} (${count})`
Suffixed(label, count) == label \o " (" \o ToString(count) \o ")"

\* labelCounts[label], undefined read as 0
CountOf(counts, label) == IF label \in DOMAIN counts THEN counts[label] ELSE 0

\* one pass of the loop over Object.entries(clusterSummaries), ascending ids
UniqueLabelStep ==
    /\ pc = "labels"
    /\ cursor < Cardinality(DOMAIN clusterSummaries)
    /\ LET clusterId == cursor
           summary == clusterSummaries[clusterId]
           label == summary.label
           seen == CountOf(labelCounts, label)
       IN  IF seen # 0
           THEN /\ labelCounts' = [labelCounts EXCEPT ![label] = seen + 1]
                /\ updatedSummaries' =
                     [updatedSummaries EXCEPT
                        ![clusterId] = [label |-> Suffixed(label, seen + 1),
                                        name |-> Suffixed(summary.name, seen + 1)]]
           ELSE /\ labelCounts' =
                     [l \in DOMAIN labelCounts \cup {label} |->
                        IF l = label THEN 1 ELSE labelCounts[l]]
                /\ UNCHANGED updatedSummaries
    /\ cursor' = cursor + 1
    /\ UNCHANGED <<pc, impl, vectors, kmVars, dbVars, selVars, clusterSummaries>>
    /\ UNCHANGED <<embVars, genVars, runVars, auxVars>>

\* the loop is over: the response carries updatedSummaries
LabelsReturn ==
    /\ pc = "labels"
    /\ cursor >= Cardinality(DOMAIN clusterSummaries)
    /\ pc' = "labels_done"
    /\ UNCHANGED <<impl, vectors, kmVars, dbVars, selVars, lblVars>>
    /\ UNCHANGED <<embVars, genVars, runVars, auxVars>>

----------------------------------------------------------------------------
(* Vectorizers: generateSemanticEmbeddings (route.ts) and                  *)
(* createSemanticVectors / createSemanticFingerprint (semantic-analysis).  *)
(*                                                                         *)
(* A document is represented by what the vectorizers read from it: the     *)
(* counts behind the ten statistics, the number of matches of each topic   *)
(* pattern, the score of each semantic relationship, and for the           *)
(* fingerprint the tokens left by tokenizeText and the topic scores of     *)
(* identifyTopics (0 for a topic without score).  A produced vector is the *)
(* record [raw, magSq]: component x is raw[x + 1] / sqrt(magSq) when       *)
(* magSq > 0 and raw[x + 1] otherwise.                                     *)

EmbeddingSize == 50
StatSlots == 10
TopicLimit == 30
RelationLimit == 50
NumTopics == 10
NumConcepts == 10
NumDomains == 10

Zeros(n) == [x \in 1..n |-> RZero]

\* the score sequence that is 0 except for value v at (1-based) position p
OnlyAt(n, p, v) == [x \in 1..n |-> IF x = p THEN v ELSE 0]

\* "": no character, no word, no token
EmptyDocument ==
    [chars |-> 0, words |-> 0, marks |-> 0, newlines |-> 0, numbers |-> 0,
     capitalised |-> 0, longWords |-> 0, punct |-> 0, unique |-> 0, suffixWords |-> 0,
     topicMatches |-> OnlyAt(NumTopics, 0, 0), conceptScore |-> OnlyAt(NumConcepts, 0, 0),
     tokens |-> 0, tokenChars |-> 0, uniqueTokens |-> 0,
     topicScores |-> Zeros(NumDomains)]

\* "the and": two words, both stop words, so no token
StopWordDocument ==
    [chars |-> 7, words |-> 2, marks |-> 0, newlines |-> 0, numbers |-> 0,
     capitalised |-> 0, longWords |-> 0, punct |-> 0, unique |-> 2, suffixWords |-> 0,
     topicMatches |-> OnlyAt(NumTopics, 0, 0), conceptScore |-> OnlyAt(NumConcepts, 0, 0),
     tokens |-> 0, tokenChars |-> 0, uniqueTokens |-> 0,
     topicScores |-> Zeros(NumDomains)]

\* "database sql query": three matches of the 6th topic pattern (Database), score
\* 5 of the 5th relationship (database: the concept, "data", "sql", "query"),
\* three tokens
DatabaseDocument ==
    [chars |-> 18, words |-> 3, marks |-> 0, newlines |-> 0, numbers |-> 0,
     capitalised |-> 0, longWords |-> 0, punct |-> 0, unique |-> 3, suffixWords |-> 0,
     topicMatches |-> OnlyAt(NumTopics, 6, 3), conceptScore |-> OnlyAt(NumConcepts, 5, 5),
     tokens |-> 3, tokenChars |-> 16, uniqueTokens |-> 3,
     topicScores |-> [x \in 1..NumDomains |-> IF x = 4 THEN Rat(2, 1) ELSE RZero]]

DocCatalogue == { EmptyDocument, StopWordDocument, DatabaseDocument }

\* Math.log on the integers >= 1, modelled by the integer binary logarithm: 0 at
\* 1, positive and non-decreasing above
RECURSIVE LogFloor(_)
LogFloor(x) == IF x <= 1 THEN 0 ELSE 1 + LogFloor(x \div 2)

\* Math.min(1, score / 5)
CappedFifth(score) == RMin(ROne, Rat(score, 5))

\* "1. Basic document features": the values written at indices 0..9
Statistics(doc) ==
    << Rat(LogFloor(doc.chars + 1), 10),
       Rat(doc.words, 100),
       Rat(doc.marks, 10),
       Rat(doc.newlines, 5),
       Rat(doc.numbers, 10),
       Rat(doc.capitalised, 20),
       Rat(doc.longWords, 10),
       Rat(doc.punct, 20),
       IF doc.words = 0 THEN RZero ELSE Rat(doc.unique, doc.words),
       Rat(doc.suffixWords, 10) >>

\* the sum of the squares of v[lo..hi], halving the range
RECURSIVE SumSquares(_, _, _)
SumSquares(v, lo, hi) ==
    IF lo > hi THEN RZero
    ELSE IF lo = hi THEN RMul(v[lo], v[lo])
    ELSE LET mid == (lo + hi) \div 2
             left == SumSquares(v, lo, mid)
             right == SumSquares(v, mid + 1, hi)
         IN  RAdd(left, right)

\* "Normalize the vector": division by the magnitude when it is positive
Normalized(v) == [raw |-> v, magSq |-> SumSquares(v, 1, Len(v))]

\* the document the loop of generateSemanticEmbeddings is at
CurrentDocument == documents[Len(embeddings) + 1]

\* start of a pass of the loop over documents: the zero vector and the statistics
EmbedDocument ==
    /\ pc = "embed"
    /\ Len(embeddings) < Len(documents)
    /\ LET stats == Statistics(CurrentDocument)
       IN  vector' = [x \in 1..EmbeddingSize |-> IF x <= StatSlots THEN stats[x] ELSE RZero]
    /\ vectorIndex' = StatSlots
    /\ loopPos' = 0
    /\ pc' = "embed_topics"
    /\ UNCHANGED <<impl, vectors, kmVars, dbVars, selVars, lblVars, genVars, runVars, auxVars, documents, embeddings>>

\* one pass of the loop over the topic patterns
EmbedTopic ==
    /\ pc = "embed_topics"
    /\ loopPos < NumTopics /\ vectorIndex < TopicLimit
    /\ vector' = [vector EXCEPT ![vectorIndex + 1] =
                    CappedFifth(CurrentDocument.topicMatches[loopPos + 1])]
    /\ vectorIndex' = vectorIndex + 1
    /\ loopPos' = loopPos + 1
    /\ UNCHANGED <<pc, impl, vectors, kmVars, dbVars, selVars, lblVars, genVars, runVars, auxVars, documents,
                   embeddings>>

\* the loop over the topic patterns ends (exhausted, or vectorIndex >= 30)
EmbedTopicsDone ==
    /\ pc = "embed_topics"
    /\ ~(loopPos < NumTopics /\ vectorIndex < TopicLimit)
    /\ loopPos' = 0
    /\ pc' = "embed_relations"
    /\ UNCHANGED <<impl, vectors, kmVars, dbVars, selVars, lblVars, genVars, runVars, auxVars, documents,
                   embeddings, vector, vectorIndex>>

\* one pass of the loop over the semantic relationships
EmbedRelation ==
    /\ pc = "embed_relations"
    /\ loopPos < NumConcepts /\ vectorIndex < RelationLimit
    /\ vector' = [vector EXCEPT ![vectorIndex + 1] =
                    CappedFifth(CurrentDocument.conceptScore[loopPos + 1])]
    /\ vectorIndex' = vectorIndex + 1
    /\ loopPos' = loopPos + 1
    /\ UNCHANGED <<pc, impl, vectors, kmVars, dbVars, selVars, lblVars, genVars, runVars, auxVars, documents,
                   embeddings>>

\* the loop over the relationships ends: normalize, embeddings.push(vector)
EmbedPush ==
    /\ pc = "embed_relations"
    /\ ~(loopPos < NumConcepts /\ vectorIndex < RelationLimit)
    /\ embeddings' = Append(embeddings, Normalized(vector))
    /\ pc' = "embed"
    /\ UNCHANGED <<impl, vectors, kmVars, dbVars, selVars, lblVars, genVars, runVars, auxVars, documents, vector,
                   vectorIndex, loopPos>>

\* generateSemanticEmbeddings returns embeddings
EmbedReturn ==
    /\ pc = "embed"
    /\ Len(embeddings) >= Len(documents)
    /\ pc' = "embed_done"
    /\ UNCHANGED <<impl, vectors, kmVars, dbVars, selVars, lblVars, genVars, runVars, auxVars, embVars>>

\* createSemanticFingerprint: the zero vector over the domains for a document
\* without token, else the topic scores followed by three features, normalized
createSemanticFingerprint(doc) ==
    IF doc.tokens = 0
    THEN [raw |-> Zeros(NumDomains), magSq |-> RZero]
    ELSE Normalized(doc.topicScores \o
                    << RMin(ROne, Rat(doc.tokens, 1000)),
                       RMin(ROne, Rat(doc.tokenChars, 10 * doc.tokens)),
                       Rat(doc.uniqueTokens, doc.tokens) >>)

\* one element of documents.map(createSemanticFingerprint)
CreateSemanticVector ==
    /\ pc = "fingerprints"
    /\ Len(embeddings) < Len(documents)
    /\ embeddings' = Append(embeddings, createSemanticFingerprint(CurrentDocument))
    /\ UNCHANGED <<pc, impl, vectors, kmVars, dbVars, selVars, lblVars, genVars, runVars, auxVars, documents, vector,
                   vectorIndex, loopPos>>

\* createSemanticVectors returns the mapped list
CreateSemanticVectorsReturn ==
    /\ pc = "fingerprints"
    /\ Len(embeddings) >= Len(documents)
    /\ pc' = "fingerprints_done"
    /\ UNCHANGED <<impl, vectors, kmVars, dbVars, selVars, lblVars, genVars, runVars, auxVars, embVars>>

----------------------------------------------------------------------------
(* The labeler: generateClusterLabel (route.ts).                           *)
(*                                                                         *)
(* The catalogue is modelled by four of its twelve categories, in their    *)
(* order of registration, each with one or two of its keywords; Terms are  *)
(* the words the inputs are made of.  The joined text of the cluster is    *)
(* modelled by the set of its words, allTerms by the frequency of every    *)
(* term (0 for a term that is not a key).                                  *)

categories ==
    << [name |-> "Machine Learning", keywords |-> <<"model", "learning">>,
        label |-> "Machine Learning & AI"],
       [name |-> "Data Science", keywords |-> <<"data">>,
        label |-> "Data Science & Analytics"],
       [name |-> "Database", keywords |-> <<"database", "sql">>,
        label |-> "Database & Storage"],
       [name |-> "Education", keywords |-> <<"learning", "student">>,
        label |-> "Education & Learning"] >>

Terms == {"model", "learning", "data", "database", "sql", "student"}

\* a.includes(b) on Terms: "data" is the one term that is part of another
Includes(a, b) == a = b \/ (a = "database" /\ b = "data")

\* combinedText.includes(keyword)
TextIncludes(text, keyword) == \E w \in text : Includes(w, keyword)

\* the sum over the first m keywords of: frequency * 3 when the keyword has a
\* frequency, else 2, for the keywords the text includes
RECURSIVE KeywordScoreUpTo(_, _, _, _)
KeywordScoreUpTo(keywords, text, freq, m) ==
    IF m = 0 THEN 0
    ELSE KeywordScoreUpTo(keywords, text, freq, m - 1)
         + (IF TextIncludes(text, keywords[m])
            THEN (IF freq[keywords[m]] > 0 THEN freq[keywords[m]] * 3 ELSE 2)
            ELSE 0)

\* keywords.some((k) => k.includes(termLower) || termLower.includes(k))
TermMatches(keywords, term) ==
    \E x \in 1..Len(keywords) : Includes(keywords[x], term) \/ Includes(term, keywords[x])

\* "Bonus for top terms matching": 5 for each of the first m top terms that matches
RECURSIVE BonusUpTo(_, _, _)
BonusUpTo(keywords, top, m) ==
    IF m = 0 THEN 0
    ELSE BonusUpTo(keywords, top, m - 1) + (IF TermMatches(keywords, top[m]) THEN 5 ELSE 0)

\* the score of one category
CategoryScore(category, text, top, freq) ==
    KeywordScoreUpTo(category.keywords, text, freq, Len(category.keywords))
    + BonusUpTo(category.keywords, top, Len(top))

\* a comparator that also puts b before a on equal scores
BeforeOrTied(b, a) == b.score - a.score >= 0

\* the comparator (a, b) => b[1] - a[1] puts b before a when it is positive
Before(b, a) == b.score - a.score > 0

\* entry e inserted into the sorted list s: Array.prototype.sort is stable, so e,
\* which comes later in the list sorted, goes behind every entry it does not
\* have to precede
RECURSIVE InsertSorted(_, _)
InsertSorted(s, e) ==
    IF s = <<>> THEN <<e>>
    ELSE IF Before(e, s[Len(s)]) THEN Append(InsertSorted(SubSeq(s, 1, Len(s) - 1), e), s[Len(s)])
    ELSE Append(s, e)

RECURSIVE SortedUpTo(_, _)
SortedUpTo(s, m) == IF m = 0 THEN <<>> ELSE InsertSorted(SortedUpTo(s, m - 1), s[m])

\* Object.entries(categoryScores).sort((a, b) => b[1] - a[1])
SortByScore(s) == SortedUpTo(s, Len(s))

\* t.charAt(0).toUpperCase() + t.slice(1)
Capitalized(t) ==
    CASE t = "model" -> "Model"
      [] t = "learning" -> "Learning"
      [] t = "data" -> "Data"
      [] t = "database" -> "Database"
      [] t = "sql" -> "Sql"
      [] t = "student" -> "Student"

\* the fallback label "<Term>, <Term>, <Term> Documents" of the first three top
\* terms, as the list of its parts (every term of Terms is longer than 2)
FallbackLabel(top) ==
    [x \in 1..Min2(3, Len(top)) |-> Capitalized(top[x])] \o <<"Documents">>

\* one pass of the loop over the categories
ScoreCategory ==
    /\ pc = "categories"
    /\ categoryPos < Len(categories)
    /\ LET category == categories[categoryPos + 1]
           score == CategoryScore(category, combinedText, topTerms, allTerms)
       IN  categoryScores' = IF score > 0
                             THEN Append(categoryScores,
                                         [category |-> categoryPos + 1, score |-> score])
                             ELSE categoryScores
    /\ categoryPos' = categoryPos + 1
    /\ UNCHANGED <<pc, impl, vectors, kmVars, dbVars, selVars, lblVars, embVars, runVars, auxVars,
                   combinedText, topTerms, allTerms, clusterLabel>>

\* the best category's label, else the fallback; a label is the list of its parts
GenerateClusterLabelReturn ==
    /\ pc = "categories"
    /\ categoryPos >= Len(categories)
    /\ LET sorted == SortByScore(categoryScores)
       IN  clusterLabel' = IF sorted # <<>> /\ sorted[1].score > 0
                           THEN <<categories[sorted[1].category].label>>
                           ELSE FallbackLabel(topTerms)
    /\ pc' = "label_done"
    /\ UNCHANGED <<impl, vectors, kmVars, dbVars, selVars, lblVars, embVars, runVars, auxVars, combinedText,
                   topTerms, allTerms, categoryScores, categoryPos>>

----------------------------------------------------------------------------
(* The per-point silhouette of clustering-diagnostics.ts, next to the one  *)
(* of route.ts (PointSilhouette), on one pair (a, b).                      *)

\* the result of 0 / 0
NaN == [n |-> 0, d |-> 0]

\* Math.max(a, b), b possibly Infinity
RMax(x, y) == IF RLess(x, y) THEN y ELSE x

\* b === Number.POSITIVE_INFINITY ? 0 : (b - a) / Math.max(a, b)
DiagnosticSilhouette(a, b) ==
    IF IsInf(b) THEN RZero
    ELSE IF RMax(a, b).n = 0 THEN NaN
    ELSE RDiv(RSub(b, a), RMax(a, b))

\* the formula of route.ts on the pair
ProductionValue ==
    /\ pc = "point"
    /\ formulas' = [production |-> PointSilhouette(formulas.a, formulas.b)] @@ formulas
    /\ pc' = "point_production"
    /\ UNCHANGED <<impl, vectors, kmVars, dbVars, selVars, lblVars, embVars, genVars,
                   runVars, retry, neighborhoodCalls>>

\* the formula of clustering-diagnostics.ts on the pair
DiagnosticValue ==
    /\ pc = "point_production"
    /\ formulas' = [diagnostic |-> DiagnosticSilhouette(formulas.a, formulas.b)] @@ formulas
    /\ pc' = "point_done"
    /\ UNCHANGED <<impl, vectors, kmVars, dbVars, selVars, lblVars, embVars, genVars,
                   runVars, retry, neighborhoodCalls>>

----------------------------------------------------------------------------
(* Specifications.                                                         *)

\* what a result variable holds before the call has returned
NoResult == [state |-> "none"]

\* state of the locals of a call that is not under way
KMIdle ==
    /\ k = 0 /\ kArg = 0 /\ maxIterations = 0 /\ centroids = <<>> /\ used = {} /\ seedI = 0
    /\ clusters = EmptyMap /\ bestClusters = EmptyMap /\ bestSilhouette = RInt(-1)
    /\ iterations = 0 /\ converged = FALSE /\ kmeansResult = NoResult
    /\ history = <<>> /\ draws = <<>>

DBIdle ==
    /\ visited = <<>> /\ noise = <<>> /\ dbClusters = EmptyMap /\ clusterIdx = 0
    /\ i = 0 /\ neighbors = <<>> /\ j = 0 /\ dbscanResult = NoResult

SelIdle == documentCount = 0 /\ selected = NoResult

LblIdle ==
    /\ clusterSummaries = <<>> /\ labelCounts = <<>> /\ updatedSummaries = <<>>
    /\ cursor = 0

EmbIdle ==
    /\ documents = <<>> /\ embeddings = <<>> /\ vector = <<>>
    /\ vectorIndex = 0 /\ loopPos = 0

NoTerms == [t \in Terms |-> 0]

RunIdle == firstRun = [state |-> "none"]

AuxIdle == formulas = <<>> /\ retry = <<>> /\ neighborhoodCalls = <<>>

GenIdle ==
    /\ combinedText = {} /\ topTerms = <<>> /\ allTerms = NoTerms
    /\ categoryScores = <<>> /\ categoryPos = 0 /\ clusterLabel = <<>>

\* the sequences over S of length at most m
SeqsUpTo(S, m) == UNION { [1..len -> S] : len \in 0..m }

EpsValues == { Rat(0, 1), Rat(1, 5), Rat(1, 1) }

InitDB ==
    /\ pc = "dbscan"
    /\ impl \in {"runDBSCAN", "dbscanClustering"}
    /\ vectors \in SeqsUpTo(Catalogue, MaxVectorsDB)
    /\ eps \in EpsValues
    /\ minPts \in 0..MaxMinPts
    /\ KMIdle /\ DBIdle /\ SelIdle /\ LblIdle
    /\ EmbIdle /\ GenIdle /\ RunIdle /\ AuxIdle

InitKM ==
    /\ pc = "kmeans"
    /\ impl \in {"runKMeans", "kMeansClustering"}
    /\ vectors \in SeqsUpTo(Catalogue, MaxVectorsKM)
    /\ k \in 0..MaxK /\ kArg = k
    /\ maxIterations \in 0..MaxIter
    /\ centroids = <<>> /\ used = {} /\ seedI = 0
    /\ clusters = EmptyMap /\ bestClusters = EmptyMap /\ bestSilhouette = RInt(-1)
    /\ iterations = 0 /\ converged = FALSE /\ kmeansResult = NoResult
    /\ history = <<>> /\ draws = <<>>
    /\ eps = RZero /\ minPts = 0
    /\ DBIdle /\ SelIdle /\ LblIdle
    /\ EmbIdle /\ GenIdle /\ RunIdle /\ AuxIdle

NextKM ==
    \/ RunKMeansStart \/ RunKMeansSeed \/ RunKMeansIterate \/ RunKMeansReturn
    \/ KMeansClusteringEmpty \/ KMeansClusteringStart \/ KMeansClusteringSeed
    \/ KMeansClusteringIterate \/ KMeansClusteringReturn

SpecKM == InitKM /\ [][NextKM]_vars

InitSel ==
    /\ pc = "optimal"
    /\ impl = "runOptimalClustering"
    /\ vectors \in { v \in SeqsUpTo(Catalogue, MaxVectorsSel) : Len(v) >= 2 }
    /\ documentCount = Len(vectors)
    /\ selected = NoResult
    /\ eps = RZero /\ minPts = 0
    /\ KMIdle /\ DBIdle /\ LblIdle
    /\ EmbIdle /\ GenIdle /\ RunIdle /\ AuxIdle

NextSel ==
    \/ RunOptimalClustering
    \/ RunKMeansStart \/ RunKMeansSeed \/ RunKMeansIterate \/ RunKMeansReturn
    \/ DBStart \/ DBOuter \/ DBExpand \/ DBClose \/ DBReturn
    \/ RunOptimalClusteringReturn

SpecSel == InitSel /\ [][NextSel]_vars

InitParams ==
    /\ pc = "params"
    /\ impl \in {"runOptimalClustering", "findOptimalParameters"}
    /\ vectors = <<>>
    /\ documentCount \in 2..MaxDocuments
    /\ selected = NoResult
    /\ eps = RZero /\ minPts = 0
    /\ KMIdle /\ DBIdle /\ LblIdle
    /\ EmbIdle /\ GenIdle /\ RunIdle /\ AuxIdle

NextParams == DeriveParameters

SpecParams == InitParams /\ [][NextParams]_vars

InitLabels ==
    /\ pc = "labels"
    /\ impl = "POST"
    /\ vectors = <<>>
    /\ \E n \in 0..MaxClusters :
         \E gen \in [0..(n - 1) -> GeneratedLabels] :
            /\ clusterSummaries = [c \in 0..(n - 1) |-> [label |-> gen[c], name |-> gen[c]]]
            /\ updatedSummaries = clusterSummaries
    /\ labelCounts = <<>>
    /\ cursor = 0
    /\ eps = RZero /\ minPts = 0
    /\ KMIdle /\ DBIdle /\ SelIdle
    /\ EmbIdle /\ GenIdle /\ RunIdle /\ AuxIdle

NextLabels == UniqueLabelStep \/ LabelsReturn

SpecLabels == InitLabels /\ [][NextLabels]_vars

NextDB == DBStart \/ DBEmptyReturn \/ DBOuter \/ DBExpand \/ DBClose \/ DBReturn

SpecDB == InitDB /\ [][NextDB]_vars

\* Once called, DBSCAN keeps executing until it returns.  This is weak
\* fairness of NextDB, WF_dbProgress(NextDB), written out: every step of
\* NextDB changes pc, i or j, and a step of NextDB can be taken exactly while
\* the call has not returned (the guards of DBStart and DBEmptyReturn, of
\* DBOuter and DBReturn, and of DBExpand and DBClose are complementary).
dbProgress == <<pc, i, j>>

DBUnderWay == pc \in {"dbscan", "db_outer", "db_expand"}

DBKeepsRunning == []<>(~DBUnderWay) \/ []<><<NextDB>>_dbProgress

SpecDBFair == InitDB /\ [][NextDB]_vars /\ DBKeepsRunning

\* either engine called directly
InitEngines == InitKM \/ InitDB

NextEngines == NextKM \/ NextDB

SpecEngines == InitEngines /\ [][NextEngines]_vars

MaxVectorsMixed == 3

\* vectors of two lengths
MixedCatalogue == Catalogue \cup { <<1>> }

\* runDBSCAN handed vectors that need not have one length
InitMixed ==
    /\ pc = "dbscan"
    /\ impl = "runDBSCAN"
    /\ vectors \in SeqsUpTo(MixedCatalogue, MaxVectorsMixed)
    /\ eps \in EpsValues
    /\ minPts \in 0..MaxMinPts
    /\ KMIdle /\ DBIdle /\ SelIdle /\ LblIdle
    /\ EmbIdle /\ GenIdle /\ RunIdle /\ AuxIdle

NextMixed == DBStart \/ DBOuter \/ DBExpand \/ DBClose \/ DBReturn

SpecMixed == InitMixed /\ [][NextMixed]_vars

MaxVectorsTwice == 2
MaxKTwice == 2

\* an engine called twice on one input: the first call, draws recorded
InitTwice ==
    /\ \/ /\ pc = "kmeans"
          /\ impl \in {"runKMeans", "kMeansClustering"}
          /\ k \in 0..MaxKTwice
          /\ maxIterations \in 0..MaxIter
          /\ eps = RZero /\ minPts = 0
       \/ /\ pc = "dbscan"
          /\ impl \in {"runDBSCAN", "dbscanClustering"}
          /\ k = 0
          /\ maxIterations = 0
          /\ eps \in EpsValues
          /\ minPts \in 0..MaxMinPts
    /\ vectors \in SeqsUpTo(Catalogue, MaxVectorsTwice)
    /\ kArg = k
    /\ centroids = <<>> /\ used = {} /\ seedI = 0
    /\ clusters = EmptyMap /\ bestClusters = EmptyMap /\ bestSilhouette = RInt(-1)
    /\ iterations = 0 /\ converged = FALSE /\ kmeansResult = NoResult
    /\ history = <<>> /\ draws = <<>>
    /\ DBIdle /\ SelIdle /\ LblIdle /\ EmbIdle /\ GenIdle
    /\ firstRun = [state |-> "pending"]
    /\ AuxIdle

\* a best score that lives outside the call and keeps its last value
StaleBestSilhouette == bestSilhouette

\* "let bestSilhouette = -1": a local of the call
InitialBestSilhouette == RInt(-1)

\* the first call has returned; the same call is made again.  The parameters are
\* the caller's values, every local is declared anew.
CallAgain ==
    /\ pc \in {"km_done", "db_done"}
    /\ firstRun.state = "pending"
    /\ firstRun' = [state |-> "returned",
                    result |-> IF pc = "km_done" THEN kmeansResult ELSE dbscanResult,
                    centroids |-> centroids,
                    draws |-> draws]
    /\ pc' = IF pc = "km_done" THEN "kmeans" ELSE "dbscan"
    /\ k' = kArg
    /\ centroids' = <<>> /\ used' = {} /\ seedI' = 0
    /\ clusters' = EmptyMap /\ bestClusters' = EmptyMap
    /\ bestSilhouette' = InitialBestSilhouette
    /\ iterations' = 0 /\ converged' = FALSE /\ kmeansResult' = NoResult
    /\ history' = <<>> /\ draws' = <<>>
    /\ visited' = <<>> /\ noise' = <<>> /\ dbClusters' = EmptyMap /\ clusterIdx' = 0
    /\ i' = 0 /\ neighbors' = <<>> /\ j' = 0 /\ dbscanResult' = NoResult
    /\ UNCHANGED <<impl, vectors, maxIterations, kArg, eps, minPts, selVars, lblVars,
                   embVars, genVars, auxVars>>

NextTwice == NextKM \/ NextDB \/ CallAgain

SpecTwice == InitTwice /\ [][NextTwice]_vars

GroupSize == 5
MaxMinPtsOutlier == 6

\* the points that are farther than eps from every other point while all the
\* other points are within eps of each other
Outliers ==
    { o \in Indices :
        /\ \A p \in Indices \ {o} : ~RLeq(Dist(o, p), eps)
        /\ \A p, q \in Indices \ {o} : RLeq(Dist(p, q), eps) }

\* DBSCAN on a tight group and one outlier, the outlier at any position
InitOutlier ==
    /\ pc = "dbscan"
    /\ impl \in {"runDBSCAN", "dbscanClustering"}
    /\ vectors \in [1..(GroupSize + 1) -> Catalogue]
    /\ eps \in EpsValues
    /\ Outliers # {}
    /\ minPts \in 0..MaxMinPtsOutlier
    /\ KMIdle /\ DBIdle /\ SelIdle /\ LblIdle
    /\ EmbIdle /\ GenIdle /\ RunIdle /\ AuxIdle

NextOutlier == DBStart \/ DBOuter \/ DBExpand \/ DBClose \/ DBReturn

SpecOutlier == InitOutlier /\ [][NextOutlier]_vars

MaxVectorsRepair == 4
MaxIterRepair == 2

\* kMeansClustering alone, on lists long enough for two clusters of two
InitRepair ==
    /\ pc = "kmeans"
    /\ impl = "kMeansClustering"
    /\ vectors \in SeqsUpTo(Catalogue, MaxVectorsRepair)
    /\ k \in 0..MaxK /\ kArg = k
    /\ maxIterations \in 0..MaxIterRepair
    /\ centroids = <<>> /\ used = {} /\ seedI = 0
    /\ clusters = EmptyMap /\ bestClusters = EmptyMap /\ bestSilhouette = RInt(-1)
    /\ iterations = 0 /\ converged = FALSE /\ kmeansResult = NoResult
    /\ history = <<>> /\ draws = <<>>
    /\ eps = RZero /\ minPts = 0
    /\ DBIdle /\ SelIdle /\ LblIdle
    /\ EmbIdle /\ GenIdle /\ RunIdle /\ AuxIdle

NextRepair ==
    \/ KMeansClusteringEmpty \/ KMeansClusteringStart \/ KMeansClusteringSeed
    \/ KMeansClusteringIterate \/ KMeansClusteringReturn

SpecRepair == InitRepair /\ [][NextRepair]_vars

MaxNumerator == 6
MaxDenominator == 4

\* the finite average distances a and b are drawn from
Averages == { Rat(x, y) : x \in 0..MaxNumerator, y \in 1..MaxDenominator }

\* one point: a finite, b finite or Infinity (no other non-empty cluster)
InitFormulas ==
    /\ impl = "silhouette"
    /\ pc = "point"
    /\ vectors = <<>>
    /\ formulas \in { [a |-> x, b |-> y] : x \in Averages, y \in Averages \cup {Inf} }
    /\ retry = <<>>
    /\ neighborhoodCalls = <<>>
    /\ eps = RZero /\ minPts = 0
    /\ KMIdle /\ DBIdle /\ SelIdle /\ LblIdle /\ EmbIdle /\ GenIdle /\ RunIdle

NextFormulas == ProductionValue \/ DiagnosticValue

SpecFormulas == InitFormulas /\ [][NextFormulas]_vars

----------------------------------------------------------------------------
(* retryWithBackoff and isRetryableError (embedding-diagnostics.ts).       *)

DefaultMaxRetries == 3
DefaultInitialDelayMs == 1000
MaxMaxRetries == 3

\* what fn can do on one invocation: resolve with a value, or reject with
\* null, with an object without code, or with an object with a code
ReturnValues == {"first", "other"}

ErrorCodesUsed ==
    {"", "TIMEOUT", "DB_CONNECTION_ERROR", "EMBEDDING_API_ERROR", "QUERY_ERROR"}

Resolved == { [kind |-> "value", value |-> v] : v \in ReturnValues }

Rejected ==
    {[kind |-> "null"], [kind |-> "object", hasCode |-> FALSE]}
        \cup { [kind |-> "object", hasCode |-> TRUE, code |-> c] : c \in ErrorCodesUsed }

TypeErrorOnNull == [kind |-> "TypeError"]

retryableCodes == {"TIMEOUT", "DB_CONNECTION_ERROR", "EMBEDDING_API_ERROR"}

\* !error.code: no code property, or the empty string
CodeMissing(error) == IF error.hasCode THEN error.code = "" ELSE TRUE

isRetryableError(error) == IF error.hasCode THEN error.code \in retryableCodes ELSE FALSE

\* a test that lets one more retry through
RetriesExhaustedLate(retries, maxRetries) == retries > maxRetries

RetriesExhausted(retries, maxRetries) == retries >= maxRetries

\* the condition of the catch block under which the error is thrown again
GivesUp(error, retries, maxRetries) ==
    CodeMissing(error) \/ ~isRetryableError(error) \/ RetriesExhausted(retries, maxRetries)

retryUnchanged ==
    <<impl, vectors, kmVars, dbVars, selVars, lblVars, embVars, genVars, runVars,
      formulas, neighborhoodCalls>>

\* return await fn(): fn resolves
FnResolves ==
    /\ pc = "retry_call"
    /\ \E r \in Resolved :
          retry' = [retry EXCEPT !.invocations = Append(@, r),
                                 !.outcome = [kind |-> "returned", value |-> r.value]]
    /\ pc' = "retry_done"
    /\ UNCHANGED retryUnchanged

\* return await fn(): fn rejects, control enters the catch block
FnRejects ==
    /\ pc = "retry_call"
    /\ \E e \in Rejected :
          retry' = [retry EXCEPT !.invocations = Append(@, e), !.error = e]
    /\ pc' = "retry_catch"
    /\ UNCHANGED retryUnchanged

\* the catch block throws: the error itself, or the TypeError of reading
\* .code of null
Rethrow ==
    /\ pc = "retry_catch"
    /\ \/ /\ retry.error.kind = "null"
          /\ retry' = [retry EXCEPT !.outcome = [kind |-> "threw", error |-> TypeErrorOnNull]]
       \/ /\ retry.error.kind = "object"
          /\ GivesUp(retry.error, retry.retries, retry.maxRetries)
          /\ retry' = [retry EXCEPT !.outcome = [kind |-> "threw", error |-> retry.error]]
    /\ pc' = "retry_done"
    /\ UNCHANGED retryUnchanged

\* the catch block waits for delay, doubles it and counts the retry
Backoff ==
    /\ pc = "retry_catch"
    /\ retry.error.kind = "object"
    /\ ~GivesUp(retry.error, retry.retries, retry.maxRetries)
    /\ retry' = [retry EXCEPT !.waits = Append(@, retry.delay),
                              !.delay = @ * 2,
                              !.retries = @ + 1]
    /\ pc' = "retry_call"
    /\ UNCHANGED retryUnchanged

InitRetry ==
    /\ impl = "retryWithBackoff"
    /\ pc = "retry_call"
    /\ vectors = <<>>
    /\ \E m \in 0..MaxMaxRetries, d \in {0, 1, DefaultInitialDelayMs} :
          retry = [maxRetries |-> m, initialDelayMs |-> d, retries |-> 0, delay |-> d,
                   invocations |-> <<>>, waits |-> <<>>,
                   error |-> [kind |-> "none"], outcome |-> [kind |-> "pending"]]
    /\ formulas = <<>> /\ neighborhoodCalls = <<>>
    /\ eps = RZero /\ minPts = 0
    /\ KMIdle /\ DBIdle /\ SelIdle /\ LblIdle /\ EmbIdle /\ GenIdle /\ RunIdle

NextRetry == FnResolves \/ FnRejects \/ Rethrow \/ Backoff

SpecRetry == InitRetry /\ [][NextRetry]_vars

MaxDocs == 2

InitEmbed ==
    /\ impl \in {"generateSemanticEmbeddings", "createSemanticVectors"}
    /\ pc = IF impl = "generateSemanticEmbeddings" THEN "embed" ELSE "fingerprints"
    /\ vectors = <<>>
    /\ documents \in SeqsUpTo(DocCatalogue, MaxDocs)
    /\ embeddings = <<>> /\ vector = <<>> /\ vectorIndex = 0 /\ loopPos = 0
    /\ eps = RZero /\ minPts = 0
    /\ KMIdle /\ DBIdle /\ SelIdle /\ LblIdle /\ GenIdle /\ RunIdle /\ AuxIdle

NextEmbed ==
    \/ EmbedDocument \/ EmbedTopic \/ EmbedTopicsDone \/ EmbedRelation \/ EmbedPush
    \/ EmbedReturn \/ CreateSemanticVector \/ CreateSemanticVectorsReturn

SpecEmbed == InitEmbed /\ [][NextEmbed]_vars

MaxWords == 2
MaxTermCount == 2
MaxTopTerms == 1

\* the frequency maps whose frequencies sum to at most m
FrequenciesUpTo(m) ==
    { f \in [Terms -> 0..m] :
        f["model"] + f["learning"] + f["data"] + f["database"] + f["sql"] + f["student"] <= m }

InitLabeler ==
    /\ impl = "generateClusterLabel"
    /\ pc = "categories"
    /\ vectors = <<>>
    /\ combinedText \in { text \in SUBSET Terms : Cardinality(text) <= MaxWords }
    /\ topTerms \in SeqsUpTo(Terms, MaxTopTerms)
    /\ allTerms \in FrequenciesUpTo(MaxTermCount)
    /\ categoryScores = <<>> /\ categoryPos = 0 /\ clusterLabel = <<>>
    /\ eps = RZero /\ minPts = 0
    /\ KMIdle /\ DBIdle /\ SelIdle /\ LblIdle /\ EmbIdle /\ RunIdle /\ AuxIdle

NextLabeler == ScoreCategory \/ GenerateClusterLabelReturn

SpecLabeler == InitLabeler /\ [][NextLabeler]_vars

----------------------------------------------------------------------------
(* Properties.                                                             *)

\* how many entries of the cluster map hold index x
Occurrences(cl, x) == Cardinality({ e \in Entries(cl) : cl[e[1]][e[2]] = x })

\* the ids of the clusters that contain a document
NonEmptyIds(cl) == { c \in Ids(cl) : Len(cl[c]) > 0 }

InUnitBand(x) == RLeq(RInt(-1), x) /\ RLeq(x, ROne)

KMeansReturned == pc = "km_done"
DBSCANReturned == pc = "db_done"

\* C1: K-Means completeness.  For N >= 1 vectors, k >= 1 and maxIterations >= 1
\* the call returns, and the returned cluster map holds every index 0..N-1
\* exactly once and no other index (runKMeans and kMeansClustering).
C1_KMeansComplete ==
    (N >= 1 /\ k >= 1 /\ maxIterations >= 1) =>
        /\ pc # "threw"
        /\ KMeansReturned =>
             /\ \A x \in Indices : Occurrences(kmeansResult.clusters, x) = 1
             /\ Flat(kmeansResult.clusters) \subseteq Indices

C1_Witness ==
    /\ KMeansReturned
    /\ N >= 3 /\ k >= 2 /\ maxIterations >= 1
    /\ Cardinality(NonEmptyIds(kmeansResult.clusters)) >= 2

\* C2: DBSCAN loses no document.  Every index 0..N-1 is in at least one cluster
\* of the returned map, the clusters made from noise included.
C2_DBSCANNoLoss ==
    DBSCANReturned => \A x \in Indices : x \in Flat(dbscanResult.clusters)

C2_Witness ==
    /\ DBSCANReturned
    /\ N >= 3
    /\ Len(noise) >= 1
    /\ \E c \in Ids(dbscanResult.clusters) : Len(dbscanResult.clusters[c]) >= 2

\* C3: DBSCAN produces no duplicates.  For minPts >= 1 no index is in more than
\* one cluster of the returned map, the clusters made from noise included.
C3_DBSCANNoDuplicates ==
    (DBSCANReturned /\ minPts >= 1) =>
        \A x \in Indices : Occurrences(dbscanResult.clusters, x) <= 1

\* C4: silhouette bounds.  The overall score of every K-Means and DBSCAN result,
\* and of every K-Means iteration's assignment, lies in [-1, 1], and so does
\* every per-point value of the piecewise formula.
PointValuesInBand(cl) ==
    \A e \in Entries(cl) : InUnitBand(SilhouetteOf(cl[e[1]][e[2]], cl, e[1]))

C4_SilhouetteBounds ==
    /\ InUnitBand(calculateSilhouetteScore(clusters)) /\ PointValuesInBand(clusters)
    /\ KMeansReturned =>
         /\ InUnitBand(kmeansResult.silhouetteScore)
         /\ PointValuesInBand(kmeansResult.clusters)
    /\ DBSCANReturned =>
         /\ InUnitBand(dbscanResult.silhouetteScore)
         /\ PointValuesInBand(dbscanResult.clusters)

\* a result whose score is negative: some point took the b/a - 1 branch
C4_Witness ==
    /\ DBSCANReturned
    /\ RLess(dbscanResult.silhouetteScore, RZero)
    /\ \E e \in Entries(dbscanResult.clusters) :
         LET cl == dbscanResult.clusters
             p == cl[e[1]][e[2]]
         IN  RLess(PointB(p, cl, e[1]), PointA(p, cl[e[1]]))

\* C5: silhouette is 0 for degenerate clusterings.  A K-Means result (N >= 1,
\* maxIterations >= 1) or a DBSCAN result with at most one cluster that contains
\* a document has silhouetteScore 0.
C5_DegenerateSilhouetteZero ==
    /\ (KMeansReturned /\ N >= 1 /\ maxIterations >= 1
          /\ Cardinality(NonEmptyIds(kmeansResult.clusters)) <= 1)
         => kmeansResult.silhouetteScore = RZero
    /\ (DBSCANReturned /\ Cardinality(NonEmptyIds(dbscanResult.clusters)) <= 1)
         => dbscanResult.silhouetteScore = RZero

\* C6: label uniqueness.  In the returned summaries no two clusters have the same
\* label; of the clusters that generated label L, the one with the smallest id
\* keeps L and the n-th one in ascending id order (n >= 2) has 'L (n)'.
Rank(c) ==
    Cardinality({ x \in DOMAIN clusterSummaries :
                    x <= c /\ clusterSummaries[x].label = clusterSummaries[c].label })

C6_LabelsUnique ==
    pc = "labels_done" =>
        /\ \A c1, c2 \in DOMAIN updatedSummaries :
             c1 # c2 => updatedSummaries[c1].label # updatedSummaries[c2].label
        /\ \A c \in DOMAIN updatedSummaries :
             updatedSummaries[c].label =
                IF Rank(c) = 1 THEN clusterSummaries[c].label
                ELSE clusterSummaries[c].label \o " (" \o ToString(Rank(c)) \o ")"

C6_Witness ==
    /\ pc = "labels_done"
    /\ \E c \in DOMAIN updatedSummaries : Rank(c) = 3
    /\ \E c \in DOMAIN updatedSummaries : Rank(c) = 1 /\ c > 0

\* C7: K-Means on an empty vector list returns normally, with an empty cluster
\* map and silhouette score 0, for every k and maxIterations (runKMeans and
\* kMeansClustering).
C7_KMeansEmptyInput ==
    N = 0 =>
        /\ pc # "threw"
        /\ KMeansReturned =>
             /\ kmeansResult.clusters = EmptyMap
             /\ kmeansResult.silhouetteScore = RZero

\* C8: DBSCAN on an empty vector list returns an empty cluster map and
\* silhouette score 0, for every eps and minPts (runDBSCAN and dbscanClustering).
C8_DBSCANEmptyInput ==
    N = 0 =>
        /\ pc # "threw"
        /\ DBSCANReturned =>
             /\ dbscanResult.clusters = EmptyMap
             /\ dbscanResult.silhouetteScore = RZero

C8_Witness == DBSCANReturned /\ N = 0 /\ impl = "runDBSCAN" /\ minPts = 0

\* C9: algorithm selection.  runOptimalClustering returns the clusters, the
\* coherence map and the score of the candidate with the higher silhouette; the
\* name is "DBSCAN" exactly when DBSCAN's score is the higher one, "K-means"
\* otherwise, and the returned score is the maximum of the two.
C9_SelectsHigherSilhouette ==
    pc = "optimal_done" =>
        LET km == kmeansResult
            db == dbscanResult
            won == IF selected.algorithm = "DBSCAN" THEN db ELSE km
        IN  /\ selected.algorithm \in {"DBSCAN", "K-means"}
            /\ selected.algorithm = "DBSCAN"
                 <=> RLess(km.silhouetteScore, db.silhouetteScore)
            /\ RLeq(km.silhouetteScore, selected.silhouetteScore)
            /\ RLeq(db.silhouetteScore, selected.silhouetteScore)
            /\ selected.silhouetteScore = won.silhouetteScore
            /\ selected.clusters = won.clusters
            /\ selected.clusterCoherence = won.clusterCoherence

C9_Witness ==
    /\ pc = "optimal_done"
    /\ selected.algorithm = "DBSCAN"
    /\ selected.clusters # kmeansResult.clusters

\* C10: selector parameters.  For N >= 2 documents, k = min(max(2, c), 10) where
\* c is the least integer with c * c >= N / 2, and minPts = max(2, min(4, f))
\* where f is the integer part of N / 10; so 2 <= k <= 10, 2 <= minPts <= 4 and
\* k <= N, and clamping k to N leaves it unchanged.
C10_SelectorParameters ==
    pc = "params_done" =>
        /\ \E c \in 0..documentCount :
             /\ 2 * c * c >= documentCount
             /\ c > 0 => 2 * (c - 1) * (c - 1) < documentCount
             /\ k = Min2(Max2(2, c), 10)
        /\ \E f \in 0..documentCount :
             /\ 10 * f <= documentCount /\ documentCount < 10 * (f + 1)
             /\ minPts = Max2(2, Min2(4, f))
        /\ 2 <= k /\ k <= 10
        /\ 2 <= minPts /\ minPts <= 4
        /\ k <= documentCount
        /\ ClampK(documentCount, k) = k

C10_Witness ==
    pc = "params_done" /\ k = 10 /\ minPts = 4 /\ documentCount > 162

\* the silhouette of the assignment of iteration m (1-based)
ScoreAt(m) == calculateSilhouetteScore(history[m].clusters)

\* the earliest iteration whose assignment attains the maximum score
EarliestBest ==
    CHOOSE m \in 1..Len(history) :
        /\ \A x \in 1..Len(history) : RLeq(ScoreAt(x), ScoreAt(m))
        /\ \A x \in 1..(m - 1) : RLess(ScoreAt(x), ScoreAt(m))

C12_NoEmptyCluster ==
    KMeansReturned =>
        \A c \in Ids(kmeansResult.clusters) : Len(kmeansResult.clusters[c]) > 0

\* C13: convergence stop.  K-Means (runKMeans and kMeansClustering, N >= 1,
\* k >= 1) runs no iteration after the first one whose update moved no centroid
\* by more than 0.001, and reports the number of iterations run.
C13_ConvergenceStop ==
    (KMeansReturned /\ N >= 1 /\ k >= 1) =>
        /\ kmeansResult.iterations = Len(history)
        /\ \A m \in 1..Len(history) : ~history[m].moved => m = Len(history)

\* C14: DBSCAN noise folding.  In the step that ends the call, 1 to 3 noise
\* points become singleton clusters clusterIdx, clusterIdx + 1, ... in noise
\* order, 4 or more become the one cluster clusterIdx, none adds no cluster, and
\* every cluster formed by the main loop is returned unchanged.
C14_NoiseFolding ==
    [][(pc = "db_outer" /\ pc' = "db_done") =>
          LET n == Len(noise)
              added == IF n = 0 THEN {}
                       ELSE IF n <= 3 THEN clusterIdx .. (clusterIdx + n - 1)
                       ELSE {clusterIdx}
          IN  /\ Ids(dbClusters') = Ids(dbClusters) \cup added
              /\ added \cap Ids(dbClusters) = {}
              /\ \A c \in Ids(dbClusters) : dbClusters'[c] = dbClusters[c]
              /\ (1 <= n /\ n <= 3) =>
                    \A m \in 1..n : dbClusters'[clusterIdx + m - 1] = <<noise[m]>>
              /\ n >= 4 => dbClusters'[clusterIdx] = noise
              /\ dbscanResult'.clusters = dbClusters']_vars

\* a return that folded exactly three noise points next to a cluster of the main loop
C14_Witness ==
    /\ DBSCANReturned
    /\ Len(noise) = 3 /\ clusterIdx >= 1
    /\ \A m \in 1..3 : dbscanResult.clusters[clusterIdx + m - 1] = <<noise[m]>>

\* C15: k clamp.  When K-Means (runKMeans, kMeansClustering) is given N >= 1
\* vectors and k > N it continues with k = N: at most N centroids are seeded,
\* every cluster id is below N, and the result has at most N = min(k, N)
\* clusters.
C15_KClamp ==
    (N >= 1 /\ kArg > N /\ pc # "kmeans") =>
        /\ pc # "threw"
        /\ k = N
        /\ Len(centroids) <= N
        /\ Ids(clusters) \subseteq 0..(N - 1)
        /\ \A m \in 1..Len(history) : Ids(history[m].clusters) \subseteq 0..(N - 1)
        /\ KMeansReturned =>
             /\ Ids(kmeansResult.clusters) \subseteq 0..(N - 1)
             /\ Cardinality(Ids(kmeansResult.clusters)) <= N

\* a returned call that was given more clusters than vectors and fills N clusters
C15_Witness ==
    /\ KMeansReturned
    /\ N >= 2 /\ kArg > N
    /\ Cardinality(NonEmptyIds(kmeansResult.clusters)) = N

\* the number of components of a produced vector
Dimension(v) == Len(v.raw)

\* C16: uniform vector dimension.  The vectorizer (generateSemanticEmbeddings,
\* createSemanticVectors) returns one vector per document, all of the same
\* length, documents without any term included; the length is 50 for
\* generateSemanticEmbeddings.
C16_UniformDimension ==
    pc \in {"embed_done", "fingerprints_done"} =>
        /\ Len(embeddings) = Len(documents)
        /\ \A a, b \in 1..Len(embeddings) : Dimension(embeddings[a]) = Dimension(embeddings[b])
        /\ pc = "embed_done" => \A a \in 1..Len(embeddings) : Dimension(embeddings[a]) = 50

\* C17: vector block layout.  In every vector generateSemanticEmbeddings produces
\* the slots 20..29 are 0, and the loop over the semantic relationships writes
\* only at indices >= 30.
C17_BlockLayout ==
    /\ (pc = "embed_relations" /\ loopPos < NumConcepts) => vectorIndex >= 30
    /\ pc = "embed_done" =>
         \A a \in 1..Len(embeddings) : \A x \in 20..29 : embeddings[a].raw[x + 1] = RZero

\* the score the labeler gives category c (1-based, in registration order)
ScoreOf(c) == CategoryScore(categories[c], combinedText, topTerms, allTerms)

\* C18: labeler selection and tie-break.  When some category has a positive
\* score, generateClusterLabel returns the label of a category whose score no
\* other exceeds, and among the categories sharing that score, of the one
\* registered first.
C18_LabelSelection ==
    (pc = "label_done" /\ \E c \in 1..Len(categories) : ScoreOf(c) > 0) =>
        \E c \in 1..Len(categories) :
            /\ ScoreOf(c) > 0
            /\ \A d \in 1..Len(categories) : ScoreOf(d) <= ScoreOf(c)
            /\ \A d \in 1..(c - 1) : ScoreOf(d) < ScoreOf(c)
            /\ clusterLabel = <<categories[c].label>>

\* a tie at the top between the first and the last category, under a lower
\* positive score in between, and the first one's label returned
C18_Witness ==
    /\ pc = "label_done"
    /\ ScoreOf(1) = ScoreOf(4) /\ ScoreOf(1) > 0
    /\ ScoreOf(2) > 0 /\ ScoreOf(2) < ScoreOf(1)
    /\ clusterLabel = <<categories[1].label>>

\* two of the input vectors differ in length
MixedLengths == \E p, q \in Indices : Len(Vec(p)) # Len(Vec(q))

\* C19: dimension mismatch fails fast.  When the vectors handed to the
\* clustering core do not all have the same length, no clustering result is
\* returned (the engine stops with an error instead of truncating to the
\* shorter length).
C19_MismatchFailsFast == MixedLengths => ~DBSCANReturned

\* the second of the two calls has returned
SecondReturned == firstRun.state = "returned" /\ pc \in {"km_done", "db_done"}

\* what the call under way returned
Returned == IF pc = "km_done" THEN kmeansResult ELSE dbscanResult

AllIdentical == \A p, q \in Indices : Vec(p) = Vec(q)

\* the coherence of cluster c of the returned map
ReturnedCoherence(c) == Coherence(kmeansResult.clusters[c])

\* C21: identical documents collapse to one cluster.  When all N >= 2 input
\* vectors are identical and K-Means is asked for k > 1 clusters, the returned
\* map has exactly one cluster, it holds all N indices, and its coherence is 1
\* (runKMeans and kMeansClustering).
C21_IdenticalCollapse ==
    (KMeansReturned /\ N >= 2 /\ AllIdentical /\ kArg > 1 /\ maxIterations >= 1) =>
        /\ Cardinality(Ids(kmeansResult.clusters)) = 1
        /\ \A c \in Ids(kmeansResult.clusters) :
             /\ Len(kmeansResult.clusters[c]) = N
             /\ ReturnedCoherence(c) = ROne

\* the indices of a list, as a set
Members(pts) == { pts[m] : m \in 1..Len(pts) }

\* C22: the outlier becomes a singleton.  For a group of points pairwise within
\* eps and one point farther than eps from all of them, and 2 <= minPts <= size
\* of the group, DBSCAN records the outlier as noise and returns exactly two
\* clusters, the group and the outlier alone, wherever the outlier stands in the
\* input.
C22_OutlierSingleton ==
    (DBSCANReturned /\ N >= 3 /\ Outliers # {} /\ 2 <= minPts /\ minPts <= N - 1) =>
        \E o \in Outliers :
            LET cl == dbscanResult.clusters
            IN  /\ noise = <<o>>
                /\ Cardinality(Ids(cl)) = 2
                /\ { Members(cl[c]) : c \in Ids(cl) } = { Indices \ {o}, {o} }
                /\ \A c \in Ids(cl) : Len(cl[c]) = Cardinality(Members(cl[c]))

\* the outlier in the middle of the input, found with the largest minPts
C22_Witness ==
    /\ DBSCANReturned
    /\ N = GroupSize + 1 /\ minPts = N - 1
    /\ 2 \in Outliers
    /\ noise = <<2>>
    /\ Cardinality(Ids(dbscanResult.clusters)) = 2

\* runOptimalClustering has returned
SelectorReturned == pc = "optimal_done"

\* C23: selector parameter record.  When runOptimalClustering returns the
\* DBSCAN candidate, algorithmDetails holds epsilon, minPts and the number of
\* noise points of that DBSCAN run; when it returns the K-Means candidate,
\* algorithmDetails holds k and the iteration count of that K-Means run.
C23_ParameterRecord ==
    SelectorReturned =>
        LET details == selected.algorithmDetails
        IN  IF selected.algorithm = "DBSCAN"
            THEN /\ details.epsilon = eps
                 /\ details.minPts = minPts
                 /\ "noisePoints" \in DOMAIN details
                 /\ details.noisePoints = Len(noise)
            ELSE /\ details.k = kArg
                 /\ details.iterations = kmeansResult.iterations

\* the lowest id among the clusters of maximal size
FirstLargest(cl) ==
    CHOOSE c \in Ids(cl) :
        \A d \in Ids(cl) : Len(cl[d]) < Len(cl[c]) \/ (Len(cl[d]) = Len(cl[c]) /\ c <= d)

\* cluster e, when empty, receives the first half (rounded up) of the first
\* largest cluster, when that one holds two indices or more
SplitFor(cl, e) ==
    LET big == FirstLargest(cl)
        size == Len(cl[big])
        half == (size \div 2) + (size % 2)
    IN  IF Len(cl[e]) = 0 /\ size >= 2
        THEN [cl EXCEPT ![e] = SubSeq(cl[big], 1, half),
                        ![big] = SubSeq(cl[big], half + 1, size)]
        ELSE cl

\* the splits for clusters 0..m-1, in ascending order
RECURSIVE Repaired(_, _)
Repaired(cl, m) == IF m = 0 THEN cl ELSE SplitFor(Repaired(cl, m - 1), m - 1)

\* C24: empty-cluster repair in kMeansClustering.  In each iteration every
\* cluster the assignment left empty receives the first ceil(size/2) indices of
\* the first cluster of maximal size (lowest id on ties) when that size is >= 2;
\* the repair neither adds nor removes an index; with N >= k all k clusters are
\* non-empty at the end of the iteration, and the returned map has exactly k
\* clusters.
C24_EmptyClusterRepair ==
    [][(impl = "kMeansClustering" /\ k >= 1) =>
         /\ pc = "km_iter" =>
              LET assigned == Assign(k, centroids)
              IN  /\ clusters' = Repaired(assigned, k)
                  /\ \A x \in Indices : Occurrences(clusters', x) = Occurrences(assigned, x)
                  /\ Flat(clusters') = Flat(assigned)
                  /\ N >= k => \A c \in 0..(k - 1) : Len(clusters'[c]) > 0
         /\ (pc = "km_return" /\ iterations >= 1 /\ N >= k) =>
              Cardinality(Ids(kmeansResult'.clusters)) = k]_vars

\* four identical vectors, k = 3: the assignment fills cluster 0 only, the first
\* split leaves clusters 0 and 1 tied at two, and the second split takes from
\* cluster 0, the lower id
C24_Witness ==
    /\ KMeansReturned /\ impl = "kMeansClustering"
    /\ N = 4 /\ AllIdentical /\ k = 3 /\ iterations = 1
    /\ kmeansResult.clusters = (0 :> <<3>> @@ 1 :> <<0, 1>> @@ 2 :> <<2>>)

\* both formulas have been evaluated on the pair
FormulasDone == pc = "point_done"

\* C25: the two silhouette formulas agree away from the boundary.  For finite
\* a >= 0 and b >= 0 with max(a, b) > 0 the formula of route.ts yields the value
\* of (b - a) / max(a, b), the formula of clustering-diagnostics.ts; the two
\* differ only when a = b = 0, where route.ts yields 0, or when b is infinite,
\* where route.ts yields 1.
C25_FormulasAgree ==
    FormulasDone =>
        LET a == formulas.a
            b == formulas.b
        IN  /\ (~IsInf(b) /\ (a.n > 0 \/ b.n > 0)) =>
                 /\ formulas.production = formulas.diagnostic
                 /\ RMul(formulas.production, RMax(a, b)) = RSub(b, a)
            /\ formulas.production # formulas.diagnostic =>
                 \/ (a.n = 0 /\ b.n = 0) /\ formulas.production = RZero
                 \/ IsInf(b) /\ formulas.production = ROne

\* a pair with a > b > 0: both formulas give the same negative value
C25_Witness ==
    /\ FormulasDone
    /\ ~IsInf(formulas.b) /\ formulas.b.n > 0 /\ RLess(formulas.b, formulas.a)
    /\ formulas.production = formulas.diagnostic
    /\ RLess(formulas.production, RZero)

\* C26: runKMeans always records a snapshot.  For N >= 1 vectors and
\* maxIterations >= 1 the silhouette of the first iteration's assignment is
\* greater than -1, the initial bestSilhouette, so the returned cluster map is
\* not the initial empty map and the returned silhouetteScore is not -1.
C26_SnapshotRecorded ==
    (impl = "runKMeans" /\ N >= 1 /\ maxIterations >= 1) =>
        /\ Len(history) >= 1 => RLess(RInt(-1), ScoreAt(1))
        /\ pc \in {"km_iter", "km_return"} /\ iterations >= 1 =>
             /\ bestClusters # EmptyMap
             /\ RLess(RInt(-1), bestSilhouette)
        /\ KMeansReturned =>
             /\ kmeansResult.clusters # EmptyMap
             /\ kmeansResult.silhouetteScore # RInt(-1)

\* a first assignment of score 0, the lowest score the bounds reach, was kept
\* as the best snapshot
C26_Witness ==
    /\ KMeansReturned /\ impl = "runKMeans"
    /\ N >= 2 /\ Len(history) >= 1
    /\ ScoreAt(1) = RZero
    /\ kmeansResult.clusters = history[1].clusters
    /\ kmeansResult.silhouetteScore = RZero

(***************************************************************************)
(* C27: DBSCAN terminates and visits each point once.  While a cluster is  *)
(* expanded its queue never holds the same index twice, so the queue is    *)
(* never longer than N and the inner loop position never passes N; every   *)
(* index is marked visited by exactly the one step that calls getNeighbors *)
(* on it, so no neighbourhood is computed twice; and every call, whatever  *)
(* the input, eps and minPts, reaches its return with every index marked.  *)
(***************************************************************************)
DBRunning == pc \in {"db_outer", "db_expand", "db_done"} /\ DOMAIN visited = Indices

NoRepeat(s) == \A m, n \in 1..Len(s) : s[m] = s[n] => m = n

QueueBounded ==
    pc = "db_expand" =>
        /\ NoRepeat(neighbors)
        /\ Len(neighbors) <= N
        /\ j <= Len(neighbors)

VisitedOnce ==
    DBRunning =>
        /\ \A x \in Indices : neighborhoodCalls[x] <= 1
        /\ \A x \in Indices : visited[x] <=> neighborhoodCalls[x] = 1
        /\ pc = "db_done" => \A x \in Indices : visited[x]

C27_DBSCANTerminates == [](QueueBounded /\ VisitedOnce) /\ <>(pc = "db_done")

\* a queue that grew during the expansion to hold every one of three or more
\* indices, fully consumed
C27_Witness ==
    /\ pc = "db_expand"
    /\ N >= 3
    /\ Len(neighbors) = N
    /\ Len(getNeighbors(i)) < N
    /\ j = N
    /\ \A x \in Indices : neighborhoodCalls[x] = 1

(***************************************************************************)
(* C28: with minPts = 2 runDBSCAN never duplicates an index.  The distance *)
(* is symmetric, so a point recorded as noise (fewer than two neighbours)  *)
(* is in the neighbourhood of no other point; no expansion queue holds it, *)
(* and in the returned map every index appears in exactly one cluster,     *)
(* exactly once.                                                           *)
(***************************************************************************)
NoiseIsApart ==
    \A m \in 1..Len(noise) : \A q \in Indices \ {noise[m]} :
        ~InSeq(noise[m], getNeighbors(q))

C28_MinPtsTwoNoDuplicate ==
    (impl = "runDBSCAN" /\ minPts = 2) =>
        /\ \A p, q \in Indices : Dist(p, q) = Dist(q, p)
        /\ pc \in {"db_outer", "db_expand", "db_done"} => NoiseIsApart
        /\ pc = "db_expand" => \A m \in 1..Len(noise) : ~InSeq(noise[m], neighbors)
        /\ pc = "db_done" =>
              \A x \in Indices : Occurrences(dbscanResult.clusters, x) = 1

\* a returned map where a noise point stands before the members of a cluster
\* that was grown by expansion
C28_Witness ==
    /\ pc = "db_done" /\ impl = "runDBSCAN" /\ minPts = 2
    /\ N = 4
    /\ Len(noise) >= 1
    /\ \E c \in Ids(dbscanResult.clusters) :
          /\ Len(dbscanResult.clusters[c]) >= 3
          /\ \A m \in 1..Len(dbscanResult.clusters[c]) :
                dbscanResult.clusters[c][m] > noise[1]

(***************************************************************************)
(* C29: selector tie-break.  When the K-Means and the DBSCAN candidate     *)
(* have equal silhouette scores runOptimalClustering returns the K-Means   *)
(* candidate; it returns the DBSCAN candidate exactly when the DBSCAN      *)
(* score is strictly greater.                                              *)
(***************************************************************************)
ScoresTie == kmeansResult.silhouetteScore = dbscanResult.silhouetteScore

C29_TieGoesToKMeans ==
    SelectorReturned =>
        /\ ScoresTie =>
              /\ selected.algorithm = "K-means"
              /\ selected.clusters = kmeansResult.clusters
              /\ selected.silhouetteScore = kmeansResult.silhouetteScore
              /\ selected.iterations = kmeansResult.iterations
        /\ selected.algorithm = "DBSCAN" <=>
              RLess(kmeansResult.silhouetteScore, dbscanResult.silhouetteScore)
        /\ selected.algorithm = "DBSCAN" => selected.clusters = dbscanResult.clusters

\* the two candidates have the same score and different cluster maps
C29_Witness ==
    /\ SelectorReturned
    /\ N >= 3
    /\ ScoresTie
    /\ kmeansResult.clusters # dbscanResult.clusters
    /\ selected.algorithm = "K-means"
    /\ selected.clusters = kmeansResult.clusters

(***************************************************************************)
(* C30: retryWithBackoff bounds its attempts.  fn is invoked at most       *)
(* maxRetries + 1 times; the first invocation that resolves ends the call  *)
(* with its value; a rejection without code or with a code that is not     *)
(* TIMEOUT, DB_CONNECTION_ERROR or EMBEDDING_API_ERROR is thrown again at  *)
(* once, with no wait after it; after maxRetries retryable rejections the  *)
(* next rejection is thrown again; the wait before the i-th retry is       *)
(* initialDelayMs * 2^(i-1).                                               *)
(***************************************************************************)
RECURSIVE Pow2(_)
Pow2(e) == IF e = 0 THEN 1 ELSE 2 * Pow2(e - 1)

Invocations == Len(retry.invocations)

RetryableRejection(r) ==
    /\ r.kind = "object"
    /\ r.hasCode
    /\ r.code \in {"TIMEOUT", "DB_CONNECTION_ERROR", "EMBEDDING_API_ERROR"}

RetryDone == impl = "retryWithBackoff" /\ pc = "retry_done"

C30_RetryBounded ==
    impl = "retryWithBackoff" =>
        /\ Invocations <= retry.maxRetries + 1
        \* every invocation but the last was a retryable rejection, followed by one wait
        /\ \A m \in 1..(Invocations - 1) : RetryableRejection(retry.invocations[m])
        /\ Len(retry.waits) = retry.retries
        /\ \A m \in 1..Len(retry.waits) :
              retry.waits[m] = retry.initialDelayMs * Pow2(m - 1)
        /\ pc = "retry_call" => Invocations = retry.retries
        /\ pc \in {"retry_catch", "retry_done"} => Invocations = retry.retries + 1
        /\ RetryDone =>
              LET last == retry.invocations[Invocations]
              IN  /\ last.kind = "value" =>
                        retry.outcome = [kind |-> "returned", value |-> last.value]
                  /\ last.kind = "object" =>
                        /\ retry.outcome = [kind |-> "threw", error |-> last]
                        /\ RetryableRejection(last) => Invocations = retry.maxRetries + 1
                  /\ last.kind = "null" => retry.outcome.kind = "threw"

\* the call, with the default parameters, gave up after using every retry it
\* was allowed, the last rejection a retryable one
C30_Witness ==
    /\ RetryDone
    /\ retry.maxRetries = DefaultMaxRetries
    /\ retry.initialDelayMs = DefaultInitialDelayMs
    /\ Invocations = retry.maxRetries + 1
    /\ RetryableRejection(retry.invocations[Invocations])
    /\ retry.outcome.kind = "threw"
    /\ Len(retry.waits) = retry.maxRetries
====
